---- MODULE Spec2Model ----
(***************************************************************************)
(* Aurora knowledge base: the hybrid search pipeline of aurora_search      *)
(* (server.py), the Reranker (services/reranker.py), the QueryExpander     *)
(* (services/query_expander.py), the Summarizer (services/summarizer.py)   *)
(* and the project detector (utils/project_detector.py).                   *)
(*                                                                         *)
(* Texts are sequences of one-character strings.  Scores are exact         *)
(* rationals: embedding_score and keyword_score are integers in            *)
(* hundredths, final_score is an integer in thousandths, so that           *)
(* 0.7 * e + 0.3 * k is 7 * e + 3 * k.  An optional value (Python None,    *)
(* SQL NULL) is the record None, a present value v is Some(v).             *)
(***************************************************************************)
EXTENDS Integers, Sequences, FiniteSets, TLC

VARIABLES
    settings,   \* get_settings(): the configured models and reranking_top_k
    store,      \* the rows of the documents table, with the scores the
                \* Vector Store computes for them against the query
    cache,      \* QueryExpander._cache, shared by all searches
    pc,         \* where the one search task is
    req,        \* the arguments of the running aurora_search call
    query,      \* the local variable query (replaced by the expansion)
    expanded_query, \* the local variable expanded_query
    query_embedding, \* the local variable query_embedding
    documents,  \* the local variable documents (the fused, ordered rows)
    calls,      \* the external calls issued by the running search, in order
    llm,        \* what the chat call of the Reranker did, if it was made
    rerank_ret, \* what Reranker.rerank did, if it was called
    result,     \* what aurora_search returned, if it returned
    summary_cache, \* Summarizer._cache, shared by all summarize calls
    tasks,      \* the running QueryExpander.expand and Summarizer.summarize
                \* calls, one per task of the event loop
    fs,         \* the file system find_project_root looks at
    file_path,  \* the argument of the find_project_root call
    walk,       \* where the find_project_root call is: the directories left
                \* to inspect and the value returned, if it returned
    now         \* the monotonic clock the caches read, in seconds

vars == <<settings, store, cache, pc, req, query, expanded_query,
          query_embedding, documents, calls, llm, rerank_ret, result,
          summary_cache, tasks, fs, file_path, walk, now>>

\* the state of the augmentation calls and of the project detector
unitVars == <<summary_cache, tasks, fs, file_path, walk, now>>
\* the state of the one search task
searchVars == <<store, pc, req, query, expanded_query, query_embedding, documents,
                calls, llm, rerank_ret, result>>

----------------------------------------------------------------------------
(* Optional values *)

None == [some |-> FALSE]
Some(v) == [some |-> TRUE, v |-> v]
Val(o) == o.v

(* Python truthiness of an optional text (a sequence of characters) and of *)
(* an optional name (a string): neither None nor empty.                    *)
TruthyText(o) == o.some /\ o.v # <<>>
TruthyName(o) == o.some /\ o.v # ""

Min(a, b) == IF a <= b THEN a ELSE b

----------------------------------------------------------------------------
(* Characters and texts *)

Digits == <<"0", "1", "2", "3", "4", "5", "6", "7", "8", "9">>
DigitChars == {Digits[i] : i \in 1..10}
LetterChars == {"a", "b", "d", "q", "s", "x", "D", "B", "_"}
\* the superscript two: a character outside ASCII that str.isalnum() and
\* str.isdigit() accept and int() refuses
SUPERSCRIPT_TWO == "U+00B2"
\* a lone surrogate code point: one character that str.encode() refuses; it
\* is neither alphanumeric nor whitespace
SURROGATE == "U+D800"
\* text.encode() succeeds
Encodable(text) == \A i \in 1..Len(text) : text[i] # SURROGATE

\* \w of the regular expression on a str pattern: the underscore and every
\* character str.isalnum() accepts, inside ASCII or not
WordChars == LetterChars \cup DigitChars \cup {SUPERSCRIPT_TWO}
\* \s of the regular expression, str.split() and str.strip()
SpaceChars == {" ", "\n", "\t"}

DigitValue(c) == (CHOOSE i \in 1..10 : Digits[i] = c) - 1

\* str.lower() on the characters of the model
LowerChar(c) == IF c = "D" THEN "d" ELSE IF c = "B" THEN "b" ELSE c
Lower(s) == [i \in 1..Len(s) |-> LowerChar(s[i])]

RECURSIVE Concat(_)
\* the concatenation of a sequence of texts
Concat(ss) == IF ss = <<>> THEN <<>> ELSE Head(ss) \o Concat(Tail(ss))

RECURSIVE SplitOn(_, _)
\* str.split(sep) for a one-character separator: the pieces between the
\* separators, empty pieces included (always at least one piece)
SplitOn(s, seps) ==
    IF \A i \in 1..Len(s) : s[i] \notin seps
    THEN <<s>>
    ELSE LET k == CHOOSE i \in 1..Len(s) :
                    s[i] \in seps /\ \A j \in 1..(i - 1) : s[j] \notin seps
         IN  <<SubSeq(s, 1, k - 1)>> \o SplitOn(SubSeq(s, k + 1, Len(s)), seps)

\* str.split() without argument: the maximal runs of non-space characters
SplitWhitespace(s) == SelectSeq(SplitOn(s, SpaceChars), LAMBDA t : t # <<>>)

\* str.strip(): leading and trailing whitespace removed
Strip(s) ==
    IF \A i \in 1..Len(s) : s[i] \in SpaceChars
    THEN <<>>
    ELSE LET a == CHOOSE i \in 1..Len(s) :
                    s[i] \notin SpaceChars /\ \A j \in 1..(i - 1) : s[j] \in SpaceChars
             b == CHOOSE i \in 1..Len(s) :
                    s[i] \notin SpaceChars /\ \A j \in (i + 1)..Len(s) : s[j] \in SpaceChars
         IN  SubSeq(s, a, b)

RECURSIVE Join(_, _)
\* sep.join(terms)
Join(terms, sep) ==
    IF terms = <<>> THEN <<>>
    ELSE IF Len(terms) = 1 THEN terms[1]
    ELSE terms[1] \o sep \o Join(Tail(terms), sep)

\* quotes are kept in the text
build_tsquery_KeepQuotes(q) ==
    LET safe_query == [i \in 1..Len(q) |->
                          IF q[i] \in WordChars \cup SpaceChars \cup {"'"} THEN q[i] ELSE " "]
        terms == SplitWhitespace(safe_query)
    IN  Join(terms, <<" ", "&", " ">>)

\* server.py build_tsquery: every character that is neither a word character
\* nor whitespace becomes a blank, the text is split on whitespace and the
\* terms are joined with " & "
build_tsquery(q) ==
    LET safe_query == [i \in 1..Len(q) |->
                          IF q[i] \in WordChars \cup SpaceChars THEN q[i] ELSE " "]
        terms == SplitWhitespace(safe_query)
    IN  Join(terms, <<" ", "&", " ">>)

----------------------------------------------------------------------------
(* The documents table and the SQL statement aurora_search builds *)

\* a metadata value: a JSON string or a JSON boolean
StrV(s) == [t |-> "str", s |-> s]
BoolV(b) == [t |-> "bool", b |-> b]
\* Python str(value), the right-hand side of the metadata comparison
PyStr(v) == IF v.t = "bool" THEN (IF v.b THEN "True" ELSE "False") ELSE v.s
\* jsonb_extract_path_text of a stored value
JsonbText(v) == IF v.t = "bool" THEN (IF v.b THEN "true" ELSE "false") ELSE v.s

NoMetadata == <<>>

\* safe_path = current_project_path.replace("'", "''")
SqlEscape(p) == Concat([i \in 1..Len(p) |-> IF p[i] = "'" THEN <<"'", "'">> ELSE <<p[i]>>])

RECURSIVE SqlLiteralValue(_)
\* the text a quoted SQL literal '...' denotes: a doubled quote is one quote
\* (a lone quote would end the literal; SqlEscape leaves none)
SqlLiteralValue(body) ==
    IF body = <<>> THEN <<>>
    ELSE IF Len(body) >= 2 /\ body[1] = "'" /\ body[2] = "'"
         THEN <<"'">> \o SqlLiteralValue(SubSeq(body, 3, Len(body)))
         ELSE <<body[1]>> \o SqlLiteralValue(Tail(body))

EMBEDDING_WEIGHT == 7
KEYWORD_WEIGHT == 3
PROJECT_BOOST == 150
SCORE_CAP == 1000
\* the cap left out: the boosted score is taken as it is
LEAST_Uncapped(a, b) == b

\* LEAST(a, b) of the SQL
LEAST(a, b) == IF a <= b THEN a ELSE b

\* the two weights exchanged
hybrid_score_sql_Swapped(d) ==
    KEYWORD_WEIGHT * d.embedding_score + EMBEDDING_WEIGHT * d.keyword_rank

\* hybrid_score_sql: (0.7 * embedding_similarity) + (0.3 * ts_rank_cd(...))
hybrid_score_sql(d) ==
    EMBEDDING_WEIGHT * d.embedding_score + KEYWORD_WEIGHT * d.keyword_rank

\* the branch "if use_hybrid and tsquery_str"
HybridBranch(r, q) == r.use_hybrid /\ build_tsquery(q) # <<>>

\* the score before the project boost, in either branch (embedding_score is
\* in hundredths, the score in thousandths)
fused_score(d, r, q) ==
    IF HybridBranch(r, q) THEN hybrid_score_sql(d) ELSE 10 * d.embedding_score

\* the stored path compared with the escaped text instead of its value
ProjectPathEquals_Escaped(d, p) ==
    d.project_path.some /\ Val(d.project_path) = SqlEscape(p)

\* WHEN project_path = '{safe_path}' : NULL = '...' is not true
ProjectPathEquals(d, p) ==
    d.project_path.some /\ Val(d.project_path) = SqlLiteralValue(SqlEscape(p))

\* the literal built from the path as it is, without doubling the quotes:
\* the literal ends at the first quote of the path
final_score_sql_Unescaped(d, r, q) ==
    IF TruthyText(r.current_project_path)
    THEN LET p == Val(r.current_project_path)
             cut == IF \E i \in 1..Len(p) : p[i] = "'"
                    THEN SubSeq(p, 1, (CHOOSE i \in 1..Len(p) :
                                          p[i] = "'" /\ \A j \in 1..(i - 1) : p[j] # "'") - 1)
                    ELSE p
         IN  IF d.project_path.some /\ Val(d.project_path) = cut
             THEN LEAST(SCORE_CAP, fused_score(d, r, q) + PROJECT_BOOST)
             ELSE fused_score(d, r, q)
    ELSE fused_score(d, r, q)

\* final_score_sql: the CASE expression of either branch
final_score_sql(d, r, q) ==
    IF TruthyText(r.current_project_path)
    THEN IF ProjectPathEquals(d, Val(r.current_project_path))
         THEN LEAST(SCORE_CAP, fused_score(d, r, q) + PROJECT_BOOST)
         ELSE fused_score(d, r, q)
    ELSE fused_score(d, r, q)

\* the threshold compared with >= instead of >
ScoreWhere_AtLeast(d, r, q) ==
    IF HybridBranch(r, q)
    THEN d.embedding_score >= r.threshold \/ d.content_match
    ELSE d.embedding_score >= r.threshold

\* the full-text alternative left out of the hybrid WHERE clause
ScoreWhere_NoLexical(d, r, q) == d.embedding_score > r.threshold

\* the WHERE clause on the scores: similarity above the threshold, or, in
\* the hybrid branch, a full-text match
ScoreWhere(d, r, q) ==
    IF HybridBranch(r, q)
    THEN d.embedding_score > r.threshold \/ d.content_match
    ELSE d.embedding_score > r.threshold

\* the filters: namespace, document_type and one equality per metadata key
FilterWhere(d, r) ==
    /\ TruthyName(r.namespace) => d.namespace = Val(r.namespace)
    /\ TruthyName(r.document_type) => d.document_type = Val(r.document_type)
    /\ \A k \in DOMAIN r.metadata_filters :
          /\ k \in DOMAIN d.metadata
          /\ JsonbText(d.metadata[k]) = PyStr(r.metadata_filters[k])

\* the rows the WHERE clauses keep
Admitted(S, r, q) == {d \in S : ScoreWhere(d, r, q) /\ FilterWhere(d, r)}

RECURSIVE OrderByFinalScoreDesc(_, _, _)
\* ORDER BY final_score DESC: every sequence of the rows in which the score
\* never rises (the statement names no second key, so rows of equal score
\* come in any order): a row of the highest score, then the others in order
OrderByFinalScoreDesc(S, r, q) ==
    IF S = {} THEN {<<>>}
    ELSE LET score == [d \in S |-> final_score_sql(d, r, q)]
             top == {d \in S : \A e \in S : score[d] >= score[e]}
         IN  UNION {{<<d>> \o t : t \in OrderByFinalScoreDesc(S \ {d}, r, q)} : d \in top}

\* the last n rows kept instead of the first n
Limit_Tail(s, n) == SubSeq(s, Len(s) - Min(n, Len(s)) + 1, Len(s))

\* LIMIT n
Limit(s, n) == SubSeq(s, 1, Min(n, Len(s)))

\* one entry of documents, built from a row
ToDocument(d, r, q) ==
    [ id |-> d.id,
      namespace |-> d.namespace,
      document_type |-> d.document_type,
      metadata |-> d.metadata,
      project_path |-> d.project_path,
      is_same_project |-> TruthyText(r.current_project_path)
                          /\ d.project_path = r.current_project_path,
      similarity_score |-> final_score_sql(d, r, q),
      embedding_score |-> d.embedding_score,
      keyword_score |-> IF HybridBranch(r, q) THEN Some(d.keyword_rank) ELSE None ]

\* The text search configuration 'english' of to_tsquery('english', ...):
\* the parser cuts a term into words at the underscore, each word is
\* lower-cased, a stop word is dropped and the other words are stemmed.

\* the stop words of 'english' that the letters of the model can spell
ENGLISH_STOP_WORDS == {<<"a">>, <<"a", "s">>, <<"s">>}

\* the vowels of the english stemmer among the letters of the model
StemVowels == {"a"}

\* the english stemmer on the lower-case words of the model: a word of up
\* to two letters and a word in -ss stay; a final s goes when the part
\* before it holds a vowel that is not the letter next to the s; no other
\* suffix of the stemmer can be spelled with the letters of the model
EnglishStem(w) ==
    IF Len(w) <= 2 THEN w
    ELSE IF w[Len(w)] = "s" /\ w[Len(w) - 1] # "s"
            /\ \E i \in 1..(Len(w) - 2) : w[i] \in StemVowels
    THEN SubSeq(w, 1, Len(w) - 1)
    ELSE w

\* the operands of a tsquery text "t1 & t2 & ...", in order
TsqueryOperands(tsq) ==
    SplitWhitespace([i \in 1..Len(tsq) |-> IF tsq[i] = "&" THEN " " ELSE tsq[i]])

\* the lexeme of one word under the 'english' configuration, None for a
\* stop word: a word with a digit goes to the simple dictionary, which
\* lower-cases it and knows no stop word; a word of letters goes to the
\* english stemmer
Lexeme(w) ==
    IF \E i \in 1..Len(w) : w[i] \in DigitChars THEN Some(Lower(w))
    ELSE IF Lower(w) \in ENGLISH_STOP_WORDS THEN None
    ELSE Some(EnglishStem(Lower(w)))

\* the words of one operand: the text search parser splits it at the
\* characters it takes as blanks, the underscore and, with the character
\* classes of a UTF-8 locale of the C library, the superscript two
\* (punctuation there); an operand without a word gives no lexeme
OperandWords(term) ==
    SelectSeq(SplitOn(term, {"_", SUPERSCRIPT_TWO}), LAMBDA w : w # <<>>)

\* the places of the words that give a lexeme
LexemePlaces(words) ==
    SelectSeq([i \in 1..Len(words) |-> i], LAMBDA i : Lexeme(words[i]).some)

\* the phrase of the lexemes at the places given: the first lexeme has the
\* offset 1, a stop word between two lexemes keeps its place, stop words
\* before the first and after the last lexeme leave no trace
PhraseAt(words, places) ==
    [k \in 1..Len(places) |->
        [lexeme |-> Val(Lexeme(words[places[k]])), offset |-> places[k] - places[1] + 1]]

\* the lexemes of one operand with their distances: <<lexeme, offset>>
OperandLexemes(term) == PhraseAt(OperandWords(term), LexemePlaces(OperandWords(term)))

\* to_tsquery('english', tsq): the conjunction of the operands that give a
\* lexeme, each the phrase of its lexemes (an operand of stop words only is
\* dropped with a notice)
TsqueryTerms(tsq) ==
    LET ops == TsqueryOperands(tsq)
        phrases == [i \in 1..Len(ops) |-> OperandLexemes(ops[i])]
    IN  SelectSeq(phrases, LAMBDA p : p # <<>>)

\* the phrase occurs in the tsvector: its lexemes at their distances
PhraseOccurs(tsv, phrase) ==
    \E at \in 0..Len(tsv) :
        \A k \in 1..Len(phrase) :
            /\ at + phrase[k].offset \in 1..Len(tsv)
            /\ tsv[at + phrase[k].offset] = phrase[k].lexeme

\* content_tsv @@ to_tsquery(...): the query has a lexeme and every phrase
\* of the conjunction occurs in the document (content_tsv is kept by the
\* table's trigger, never NULL); content_tsv is the sequence of the
\* document's lexemes by position, <<>> at the place of a stop word
ContentMatches(doc, tsq) ==
    LET terms == TsqueryTerms(tsq)
    IN  /\ terms # <<>>
        /\ \A k \in 1..Len(terms) : PhraseOccurs(doc.content_tsv, terms[k])

\* a row of the statement: the stored document with the three values the
\* Vector Store computes for it against the query embedding and the tsquery:
\*   embedding_score = 1.0 - (embedding_vector <=> query_embedding)
\*   content_match   = content_tsv @@ to_tsquery('english', tsquery)
\*   keyword_rank    = ts_rank_cd(content_tsv, to_tsquery(...), 32), which is
\*                     0 for a document that does not match
Row(doc, qv, tsq) ==
    [ id |-> doc.id,
      namespace |-> doc.namespace,
      document_type |-> doc.document_type,
      metadata |-> doc.metadata,
      project_path |-> doc.project_path,
      embedding_score |-> doc.embedding_vector[qv],
      content_match |-> ContentMatches(doc, tsq),
      keyword_rank |-> IF ContentMatches(doc, tsq) THEN doc.rank ELSE 0 ]

Rows(S, q, qv) == {Row(doc, qv, build_tsquery(q)) : doc \in S}

\* the lists of documents the statement can produce for the stored documents
\* S, the request r, the query text q and the query embedding qv
ExecuteSearch(S, r, q, qv) ==
    { LET rows == Limit(s, r.limit)
      IN  [i \in 1..Len(rows) |-> ToDocument(rows[i], r, q)]
      : s \in OrderByFinalScoreDesc(Admitted(Rows(S, q, qv), r, q), r, q) }

----------------------------------------------------------------------------
(* What an LLM chat call can do: raise, or return a response with no      *)
(* choice, or a response whose first choice has a content (None or text). *)

LlmRaises == [kind |-> "raise"]
LlmNoChoices == [kind |-> "no_choices"]
LlmContent(c) == [kind |-> "content", content |-> c]

----------------------------------------------------------------------------
(* services/reranker.py *)

\* the longest digit text int() converts (sys.int_max_str_digits of the
\* interpreter); a longer one raises ValueError
INT_MAX_STR_DIGITS == 4300

\* str.isdigit() on the characters of the model: non-empty, and every
\* character a decimal digit or a digit of another kind
IsDigit(tok) ==
    tok # <<>> /\ \A i \in 1..Len(tok) : tok[i] \in DigitChars \cup {SUPERSCRIPT_TWO}

RECURSIVE DecimalValue(_)
\* the number a text of decimal digits denotes
DecimalValue(tok) ==
    IF tok = <<>> THEN 0
    ELSE 10 * DecimalValue(SubSeq(tok, 1, Len(tok) - 1)) + DigitValue(tok[Len(tok)])

\* int(tok) of a text isdigit() accepted: the number, or None when int()
\* raises ValueError (a digit that is no decimal digit, or too long a text)
ParseInt(tok) ==
    IF (\A i \in 1..Len(tok) : tok[i] \in DigitChars) /\ Len(tok) <= INT_MAX_STR_DIGITS
    THEN Some(DecimalValue(tok))
    ELSE None

\* "content.replace('\n', ' ').split(',')" and "token.strip()": the
\* comma-separated tokens of the content, line breaks read as blanks, stripped
RankingTokens(content) ==
    LET flat == [i \in 1..Len(content) |-> IF content[i] = "\n" THEN " " ELSE content[i]]
        pieces == SplitOn(flat, {","})
    IN  [i \in 1..Len(pieces) |-> Strip(pieces[i])]

\* the loop that fills ranking: of the tokens the numeric ones, minus one;
\* None when int() raises ValueError on one of them
ParseRanking(content) ==
    LET nums == SelectSeq(RankingTokens(content), IsDigit)
    IN  IF \E i \in 1..Len(nums) : ~ ParseInt(nums[i]).some
        THEN None
        ELSE Some([i \in 1..Len(nums) |-> Val(ParseInt(nums[i])) - 1])

\* the two comprehensions and the slice at the end of rerank
RerankOrder(docs, ranking, top_k) ==
    LET valid == SelectSeq(ranking, LAMBDA i : 0 <= i /\ i < Len(docs))
        reranked == [k \in 1..Len(valid) |-> docs[valid[k] + 1]]
        named == {ranking[k] : k \in 1..Len(ranking)}
        restIdx == SelectSeq([k \in 1..Len(docs) |-> k - 1], LAMBDA i : i \notin named)
        remaining == [k \in 1..Len(restIdx) |-> docs[restIdx[k] + 1]]
    IN  SubSeq(reranked \o remaining, 1, Min(top_k, Len(reranked) + Len(remaining)))

\* the failure of the chat call swallowed: the list comes back as it was
rerank_Swallow(docs, top_k, out) ==
    IF docs = <<>> THEN [raised |-> FALSE, docs |-> <<>>, called |-> FALSE]
    ELSE IF out.kind \in {"raise", "no_choices"}
    THEN [raised |-> FALSE, docs |-> docs, called |-> TRUE]
    ELSE LET content == IF out.content.some THEN out.content.v ELSE <<>>
             ranking == ParseRanking(content)
         IN  IF ~ ranking.some
             THEN [raised |-> TRUE, docs |-> <<>>, called |-> TRUE]
             ELSE [raised |-> FALSE,
                   docs |-> RerankOrder(docs, Val(ranking), top_k),
                   called |-> TRUE]

\* Reranker.rerank(query, documents, top_k) when the chat call does `out`:
\* raised tells whether an exception leaves rerank, docs is the list returned
\* otherwise, called tells whether the chat call was issued
rerank(docs, top_k, out) ==
    IF docs = <<>> THEN [raised |-> FALSE, docs |-> <<>>, called |-> FALSE]
    ELSE IF out.kind = "raise" THEN [raised |-> TRUE, docs |-> <<>>, called |-> TRUE]
    \* response.choices[0] of an empty list raises IndexError
    ELSE IF out.kind = "no_choices" THEN [raised |-> TRUE, docs |-> <<>>, called |-> TRUE]
    \* "content or ''", the loop over the tokens (int() may raise ValueError)
    \* and the two comprehensions
    ELSE LET content == IF out.content.some THEN out.content.v ELSE <<>>
             ranking == ParseRanking(content)
         IN  IF ~ ranking.some
             THEN [raised |-> TRUE, docs |-> <<>>, called |-> TRUE]
             ELSE [raised |-> FALSE,
                   docs |-> RerankOrder(docs, Val(ranking), top_k),
                   called |-> TRUE]

----------------------------------------------------------------------------
(* services/query_expander.py *)

\* a in b, for texts
Contains(a, b) == \E i \in 0..(Len(b) - Len(a)) : SubSeq(b, i + 1, i + Len(a)) = a

Count(s, c) == Cardinality({i \in 1..Len(s) : s[i] = c})

EXPANSION_MAX_RATIO == 5
EXPANSION_MAX_PERIODS == 2

\* _get_cache_key: the md5 digest of "query|model|temperature"; the digest
\* is taken to be collision-free and the key is the text digested
CacheKey(q, model, temperature) == q \o <<"|">> \o model \o <<"|">> \o temperature

\* cache_key in self._cache, self._cache[cache_key]
CacheHas(c, k) == \E e \in c : e.key = k
CacheGet(c, k) == (CHOOSE e \in c : e.key = k).value
\* self._cache[cache_key] = expanded
CachePut(c, k, v) == {e \in c : e.key # k} \cup {[key |-> k, value |-> v]}
\* the entry of key k has outlived its TTL
CacheDrop(c, k) == {e \in c : e.key # k}

\* the text expand keeps from the response: stripped, one pair of
\* surrounding double quotes removed
CleanExpansion(content) ==
    LET stripped == Strip(content)
    IN  IF stripped # <<>> /\ stripped[1] = "\"" /\ stripped[Len(stripped)] = "\""
        THEN SubSeq(stripped, 2, Len(stripped) - 1)
        ELSE stripped

\* validation 2, the containment of the original query, left out
ExpansionValid_NoContainment(q, expanded) ==
    /\ expanded # <<>>
    /\ Len(expanded) >= Len(q)
    /\ Len(expanded) <= Len(q) * EXPANSION_MAX_RATIO
    /\ ~ ("\n" \in {expanded[i] : i \in 1..Len(expanded)})
    /\ Count(expanded, ".") <= EXPANSION_MAX_PERIODS

\* validations 1 to 4 of expand
ExpansionValid(q, expanded) ==
    /\ expanded # <<>>
    /\ Contains(Lower(q), Lower(expanded))
    /\ Len(expanded) >= Len(q)
    /\ Len(expanded) <= Len(q) * EXPANSION_MAX_RATIO
    /\ ~ ("\n" \in {expanded[i] : i \in 1..Len(expanded)})
    /\ Count(expanded, ".") <= EXPANSION_MAX_PERIODS

\* the cleaned answer is stored under the key before the validations run
ExpandAfterLlm_StoreBeforeGate(q, key, c, out) ==
    IF out.kind # "content" THEN [value |-> None, cache |-> c]
    ELSE LET expanded == CleanExpansion(IF out.content.some THEN out.content.v ELSE <<>>)
         IN  IF ExpansionValid(q, expanded)
             THEN [value |-> Some(expanded), cache |-> CachePut(c, key, expanded)]
             ELSE [value |-> None, cache |-> CachePut(c, key, expanded)]

\* the part of expand after the chat call did `out`: the value returned
\* (None or the expansion) and the cache afterwards
ExpandAfterLlm(q, key, c, out) ==
    IF out.kind # "content" THEN [value |-> None, cache |-> c]
    ELSE LET expanded == CleanExpansion(IF out.content.some THEN out.content.v ELSE <<>>)
         IN  IF ExpansionValid(q, expanded)
             THEN [value |-> Some(expanded), cache |-> CachePut(c, key, expanded)]
             ELSE [value |-> None, cache |-> c]

----------------------------------------------------------------------------
(* The bounded world: the stored documents, the settings, the requests and *)
(* what the collaborators may answer.                                      *)

T_DB == <<"d", "b">>
T_X == <<"x">>
T_AD == <<"a", "d">>
P_PROJ == <<"/", "p">>
P_OTHER == <<"/", "o">>
P_QUOTE == <<"/", "o", "'">>

\* the number of stored documents
NumDocs == 5
\* the largest limit a request asks for
MaxLimit == 2

\* The stored documents.  embedding_vector[v] is the cosine similarity of the
\* document's embedding to the query embedding v, in hundredths; content_tsv
\* is the sequence of the lexemes of the content by position (<<>> where the
\* content has a stop word); rank is the ts_rank_cd of the
\* document when it matches, in hundredths.
Catalog == <<
    [ id |-> 1, namespace |-> "a", document_type |-> "document",
      metadata |-> [author |-> StrV("x")], project_path |-> Some(P_PROJ),
      embedding_vector |-> <<70, 20>>, content_tsv |-> <<T_DB, T_X>>, rank |-> 90 ],
    [ id |-> 2, namespace |-> "a", document_type |-> "decision",
      metadata |-> NoMetadata, project_path |-> Some(P_OTHER),
      embedding_vector |-> <<80, 95>>, content_tsv |-> <<<<>>, T_AD>>, rank |-> 40 ],
    [ id |-> 3, namespace |-> "b", document_type |-> "document",
      metadata |-> [author |-> StrV("x")], project_path |-> None,
      embedding_vector |-> <<-50, 10>>, content_tsv |-> <<T_DB>>, rank |-> 50 ],
    [ id |-> 4, namespace |-> "b", document_type |-> "decision",
      metadata |-> [author |-> StrV("y"), reviewed |-> BoolV(TRUE)],
      project_path |-> Some(P_PROJ),
      embedding_vector |-> <<95, 80>>, content_tsv |-> <<T_DB, T_X>>, rank |-> 90 ],
    [ id |-> 5, namespace |-> "a", document_type |-> "document",
      metadata |-> NoMetadata, project_path |-> Some(P_QUOTE),
      embedding_vector |-> <<80, 20>>, content_tsv |-> <<T_X, <<"1">>>>, rank |-> 30 ],
    [ id |-> 6, namespace |-> "b", document_type |-> "report",
      metadata |-> [author |-> StrV("x")], project_path |-> Some(P_PROJ),
      embedding_vector |-> <<20, 70>>, content_tsv |-> <<T_DB>>, rank |-> 10 ],
    [ id |-> 7, namespace |-> "a", document_type |-> "report",
      metadata |-> NoMetadata, project_path |-> None,
      embedding_vector |-> <<-20, 95>>, content_tsv |-> <<T_X, <<>>, T_AD>>, rank |-> 70 ] >>

Stored == {Catalog[i] : i \in 1..Min(NumDocs, Len(Catalog))}

\* the query embeddings the Embedding Provider may return
QueryVectors == {1, 2}

\* config.py: the expansion and reranking models are configured or not;
\* reranking_top_k is 10 by default
M_NAME == <<"m">>
TEMPERATURE_TEXT == <<"0", ".", "3">>
DEFAULT_TOP_K == 10
SettingsChoices ==
    { [ query_expansion_model |-> em, query_expansion_temperature |-> TEMPERATURE_TEXT,
        reranking_model |-> rm, reranking_top_k |-> k ]
      : em \in {None, Some(M_NAME)}, rm \in {None, Some(M_NAME)}, k \in {1, DEFAULT_TOP_K} }
    \ { [ query_expansion_model |-> em, query_expansion_temperature |-> TEMPERATURE_TEXT,
          reranking_model |-> None, reranking_top_k |-> 1 ] : em \in {None, Some(M_NAME)} }

\* the texts of the searches; the last two hold no ASCII character: a word
\* character of the regular expression, and a character that cannot be
\* encoded
PlainQueries == { <<>>, T_DB, <<"!">> }
Queries == PlainQueries \cup { <<SUPERSCRIPT_TWO>>, <<SURROGATE>> }
Thresholds == {20, 70}
Limits == 0..MaxLimit
CurrentProjectPaths == {None, Some(<<>>), Some(P_PROJ), Some(P_QUOTE)}
\* namespace, document_type and metadata_filters of a request
Filters ==
    { [namespace |-> None, document_type |-> None, metadata_filters |-> NoMetadata],
      [namespace |-> Some("b"), document_type |-> None, metadata_filters |-> NoMetadata],
      [namespace |-> None, document_type |-> Some("decision"), metadata_filters |-> NoMetadata],
      [namespace |-> None, document_type |-> None,
       metadata_filters |-> [author |-> StrV("x")]],
      [namespace |-> Some(""), document_type |-> None,
       metadata_filters |-> [reviewed |-> BoolV(TRUE)]] }

Requests ==
    { [ query |-> q, namespace |-> f.namespace, document_type |-> f.document_type,
        limit |-> l, threshold |-> t, metadata_filters |-> f.metadata_filters,
        current_project_path |-> p, use_hybrid |-> h, expand_query |-> e, rerank |-> rr ]
      : q \in PlainQueries, f \in Filters, l \in Limits, t \in Thresholds,
        p \in CurrentProjectPaths, h \in BOOLEAN, e \in BOOLEAN, rr \in BOOLEAN }
    \cup
    { [ query |-> q, namespace |-> None, document_type |-> None,
        limit |-> MaxLimit, threshold |-> t, metadata_filters |-> NoMetadata,
        current_project_path |-> p, use_hybrid |-> h, expand_query |-> e, rerank |-> rr ]
      : q \in Queries \ PlainQueries, t \in Thresholds, p \in {None, Some(P_PROJ)},
        h \in BOOLEAN, e \in BOOLEAN, rr \in BOOLEAN }

\* what the chat model may answer to the expansion prompt
ExpansionOutcomes ==
    { LlmRaises, LlmNoChoices, LlmContent(None),
      LlmContent(Some(<<"d", "b", " ", "x">>)),
      LlmContent(Some(<<" ", "\"", "d", "b", " ", "x", "\"", "\n">>)),
      LlmContent(Some(<<"x">>)) }

\* what the chat model may answer to the ranking prompt
RerankOutcomes ==
    { LlmRaises, LlmNoChoices, LlmContent(None),
      LlmContent(Some(<<"2", ",", "1">>)),
      LlmContent(Some(<<"2">>)),
      LlmContent(Some(<<"1", ",", " ", "1", ",", "1">>)),
      LlmContent(Some(<<"0", ",", "x", ",", "9">>)),
      LlmContent(Some(<<"2", ",", SUPERSCRIPT_TWO, ",", "1">>)) }

----------------------------------------------------------------------------
(* aurora_search, one action per piece between two awaits *)

ExtCall(name, arg) == [call |-> name, arg |-> arg]

NoRequest ==
    [ query |-> <<>>, namespace |-> None, document_type |-> None, limit |-> 0,
      threshold |-> 20, metadata_filters |-> NoMetadata, current_project_path |-> None,
      use_hybrid |-> TRUE, expand_query |-> FALSE, rerank |-> FALSE ]

SearchType(r) == IF r.use_hybrid THEN "hybrid" ELSE "embedding"

\* the mode label fixed to the default instead of computed
EmptyResponse_DefaultLabel(r) ==
    [ documents |-> <<>>, total_found |-> 0, query |-> r.query,
      current_project |-> r.current_project_path, search_type |-> "hybrid" ]

\* the value returned for an empty query
EmptyResponse(r) ==
    [ documents |-> <<>>, total_found |-> 0, query |-> r.query,
      current_project |-> r.current_project_path, search_type |-> SearchType(r) ]

\* original_query taken from the variable query, which the expansion has
\* replaced
Response_EchoesFinalQuery(r, q, eq, docs) ==
    [ documents |-> docs, total_found |-> Len(docs), query |-> q,
      current_project |-> r.current_project_path, search_type |-> SearchType(r),
      original_query |-> q, expanded_query |-> eq ]

\* the value returned at the end of the search
Response(r, q, eq, docs) ==
    [ documents |-> docs, total_found |-> Len(docs), query |-> q,
      current_project |-> r.current_project_path, search_type |-> SearchType(r),
      original_query |-> r.query, expanded_query |-> eq ]

\* "if expand_query and settings.query_expansion_model"
ExpansionEnabled(r, st) == r.expand_query /\ TruthyText(st.query_expansion_model)

\* the test of the configured model left out
RerankEnabled_NoModelCheck(r, st, docs) == r.rerank /\ docs # <<>>

\* "if rerank and rerank_model and documents"
RerankEnabled(r, st, docs) == r.rerank /\ TruthyText(st.reranking_model) /\ docs # <<>>

ExpanderKey(q, st) ==
    CacheKey(q, Val(st.query_expansion_model), st.query_expansion_temperature)

\* the number of tasks that call expand or summarize concurrently
NumTasks == 2
TaskIds == 1..NumTasks

\* a task that runs no expand or summarize call
IdleTask == [pc |-> "idle", op |-> "none", arg |-> <<>>, out |-> None, ret |-> None]

\* find_project_root is not running
IdleWalk == [pc |-> "idle", candidates |-> <<>>, ret |-> None]

\* no expand or summarize call runs outside a search, the summary cache is
\* empty and find_project_root is not running
UnitsIdle ==
    /\ summary_cache = {}
    /\ tasks = [t \in TaskIds |-> IdleTask]
    /\ fs = {}
    /\ file_path = None
    /\ walk = IdleWalk
    /\ now = 0

Init ==
    /\ settings \in SettingsChoices
    /\ store = Stored
    /\ cache = {}
    /\ UnitsIdle
    /\ pc = "idle"
    /\ req = NoRequest
    /\ query = <<>>
    /\ expanded_query = None
    /\ query_embedding = None
    /\ documents = <<>>
    /\ calls = <<>>
    /\ llm = None
    /\ rerank_ret = None
    /\ result = None

\* the search goes on with the query text q and the expansion eq: it asks for
\* the embedding of q
GoEmbed(q, eq, cs) ==
    /\ query' = q
    /\ expanded_query' = eq
    /\ calls' = Append(cs, ExtCall("embed", q))
    /\ pc' = "await_embed"

\* aurora_search is called: the empty-query guard, then, when expansion is
\* enabled, QueryExpander.expand up to its chat call (the input check and
\* the cache lookup), else straight to the embedding call
Call(r) ==
    /\ pc = "idle"
    /\ req' = r
    /\ query_embedding' = None
    /\ documents' = <<>>
    /\ llm' = None
    /\ rerank_ret' = None
    /\ UNCHANGED <<settings, store>>
    /\ UNCHANGED unitVars
    /\ IF r.query = <<>>
       THEN /\ result' = Some(EmptyResponse(r))
            /\ pc' = "done"
            /\ query' = r.query
            /\ expanded_query' = None
            /\ calls' = <<>>
            /\ cache' = cache
       ELSE /\ result' = None
            /\ IF ~ ExpansionEnabled(r, settings) \/ Strip(r.query) = <<>>
               THEN GoEmbed(r.query, None, <<>>) /\ cache' = cache
               \* _get_cache_key raises UnicodeEncodeError before the cache
               \* is looked at and before any chat call: aurora_search
               \* catches it and goes on with the original query
               ELSE IF ~ Encodable(r.query)
               THEN GoEmbed(r.query, None, <<>>) /\ cache' = cache
               ELSE IF CacheHas(cache, ExpanderKey(r.query, settings))
               THEN LET hit == CacheGet(cache, ExpanderKey(r.query, settings))
                    IN  \/ /\ cache' = cache
                            /\ IF hit # <<>>
                               THEN GoEmbed(hit, Some(hit), <<>>)
                               ELSE GoEmbed(r.query, None, <<>>)
                        \* the entry outlives its TTL between "cache_key in
                        \* self._cache" and "self._cache[cache_key]": expand
                        \* raises KeyError, which aurora_search catches
                        \/ /\ cache' = CacheDrop(cache, ExpanderKey(r.query, settings))
                            /\ GoEmbed(r.query, None, <<>>)
               ELSE /\ query' = r.query
                    /\ expanded_query' = None
                    /\ calls' = <<ExtCall("llm_expand", r.query)>>
                    /\ pc' = "await_expand"
                    /\ cache' = cache

\* the chat call of expand returns or raises: the validations, the cache
\* write, "if expanded:" in aurora_search, then the embedding call
ExpandReturns(out) ==
    /\ pc = "await_expand"
    /\ LET ret == ExpandAfterLlm(query, ExpanderKey(query, settings), cache, out)
       IN  /\ cache' = ret.cache
           /\ IF TruthyText(ret.value)
              THEN GoEmbed(Val(ret.value), ret.value, calls)
              ELSE GoEmbed(query, None, calls)
    /\ UNCHANGED <<settings, store, req, query_embedding, documents, llm, rerank_ret, result>>
    /\ UNCHANGED unitVars

\* embedding_service.embed returns the embedding: the statement is built and
\* sent to the database
EmbedReturns(qv) ==
    /\ pc = "await_embed"
    /\ query_embedding' = Some(qv)
    /\ calls' = Append(calls, ExtCall("db", build_tsquery(query)))
    /\ pc' = "await_db"
    /\ UNCHANGED <<settings, store, cache, req, query, expanded_query, documents,
                   llm, rerank_ret, result>>
    /\ UNCHANGED unitVars

\* the failure is swallowed and the search goes on to the reranker
CollaboratorFails_GoesOn ==
    /\ pc \in {"await_embed", "await_db"}
    /\ pc' = "await_rerank"
    /\ calls' = Append(calls, ExtCall("llm_rerank", query))
    /\ UNCHANGED <<settings, store, cache, req, query, expanded_query, query_embedding,
                   documents, llm, rerank_ret, result>>
    /\ UNCHANGED unitVars

\* embedding_service.embed or session.execute raises: aurora_search raises
CollaboratorFails ==
    /\ pc \in {"await_embed", "await_db"}
    /\ pc' = "failed"
    /\ UNCHANGED <<settings, store, cache, req, query, expanded_query, query_embedding,
                   documents, calls, llm, rerank_ret, result>>
    /\ UNCHANGED unitVars

\* session.execute returns the rows: documents is built; when reranking is
\* enabled the Reranker is called and issues its chat call, else the search
\* returns
DbReturns ==
    /\ pc = "await_db"
    /\ \E docs \in ExecuteSearch(store, req, query, Val(query_embedding)) :
          /\ documents' = docs
          /\ IF RerankEnabled(req, settings, docs)
             THEN /\ calls' = Append(calls, ExtCall("llm_rerank", query))
                  /\ pc' = "await_rerank"
                  /\ result' = result
             ELSE /\ calls' = calls
                  /\ pc' = "done"
                  /\ result' = Some(Response(req, query, expanded_query, docs))
    /\ UNCHANGED <<settings, store, cache, req, query, expanded_query, query_embedding,
                   llm, rerank_ret>>
    /\ UNCHANGED unitVars

\* the chat call of rerank returns or raises: rerank's result replaces
\* documents unless rerank raised, and the search returns
RerankReturns(out) ==
    /\ pc = "await_rerank"
    /\ LET ret == rerank(documents, settings.reranking_top_k, out)
           reranked_docs == IF ret.raised THEN documents ELSE ret.docs
       IN  /\ llm' = Some(out)
           /\ rerank_ret' = Some(ret)
           /\ result' = Some(Response(req, query, expanded_query, reranked_docs))
    /\ pc' = "done"
    /\ UNCHANGED <<settings, store, cache, req, query, expanded_query, query_embedding,
                   documents, calls>>
    /\ UNCHANGED unitVars

\* the cache after asyncio.CancelledError is raised at the chat call of
\* expand, a reserved key filled in by a handler
CacheAfterCancel_Placeholder(c, k) == CachePut(c, k, <<>>)

\* the cache after asyncio.CancelledError is raised at the chat call of
\* expand for the key k: CancelledError is no Exception, "except Exception"
\* does not catch it, there is no finally clause, and the cache write comes
\* after the await
CacheAfterCancel(c, k) == c

\* the places where the search task is suspended
AwaitPoints == {"await_expand", "await_embed", "await_db", "await_rerank"}

\* the search task is cancelled (or its caller's timeout cancels it) while
\* it is suspended: CancelledError goes through expand and aurora_search
Cancelled ==
    /\ pc \in AwaitPoints
    /\ pc' = "cancelled"
    /\ cache' = IF pc = "await_expand"
                THEN CacheAfterCancel(cache, ExpanderKey(query, settings))
                ELSE cache
    /\ UNCHANGED <<settings, store, req, query, expanded_query, query_embedding,
                   documents, calls, llm, rerank_ret, result>>
    /\ UNCHANGED unitVars

\* the caller has the answer (or the exception); the task is over and its
\* locals are gone
Finish ==
    /\ pc \in {"done", "failed", "cancelled"}
    /\ pc' = "idle"
    /\ req' = NoRequest
    /\ query' = <<>>
    /\ expanded_query' = None
    /\ query_embedding' = None
    /\ documents' = <<>>
    /\ calls' = <<>>
    /\ llm' = None
    /\ rerank_ret' = None
    /\ result' = None
    /\ UNCHANGED <<settings, store, cache>>
    /\ UNCHANGED unitVars

\* an entry of the expander cache outlives its TTL
CacheExpires ==
    /\ \E e \in cache : cache' = cache \ {e}
    /\ UNCHANGED <<settings, store, pc, req, query, expanded_query, query_embedding,
                   documents, calls, llm, rerank_ret, result>>
    /\ UNCHANGED unitVars

Next ==
    \/ pc = "idle" /\ \E r \in Requests : Call(r)
    \/ pc = "await_expand" /\ \E out \in ExpansionOutcomes : ExpandReturns(out)
    \/ pc = "await_embed" /\ \E qv \in QueryVectors : EmbedReturns(qv)
    \/ CollaboratorFails
    \/ DbReturns
    \/ pc = "await_rerank" /\ \E out \in RerankOutcomes : RerankReturns(out)
    \/ Cancelled
    \/ Finish
    \/ CacheExpires

Spec == Init /\ [][Next]_vars

----------------------------------------------------------------------------
(* Properties of aurora_search *)

\* aurora_search has returned a value
Returned == pc = "done" /\ result.some
Res == Val(result)
Indices(s) == 1..Len(s)

\* the statement has been executed for the running search
Executed == pc \in {"await_rerank", "done"} /\ req.query # <<>>

\* Reranker.rerank was not called, or raised so that the fused list is kept
NotReranked == ~ rerank_ret.some \/ Val(rerank_ret).raised

\* the rows of the running search
CurrentRows == Rows(store, query, Val(query_embedding))

\* C1: the number of documents aurora_search returns, and total_found, is
\* at most the requested limit, whatever the flags and the reranker's answer.
C1_AtMostLimit ==
    Returned => /\ Len(Res.documents) <= req.limit
                /\ Res.total_found <= req.limit

\* C2 as stated: every returned document has 0 <= finalScore <= 1.0.
C2_ScoreInUnitInterval ==
    Returned => \A i \in Indices(Res.documents) :
                    /\ 0 <= Res.documents[i].similarity_score
                    /\ Res.documents[i].similarity_score <= 1000

\* C2 amended: every returned document has finalScore <= 1.0, and
\* finalScore >= 0 whenever its embeddingScore is >= 0.
C2_ScoreCapped ==
    Returned => \A i \in Indices(Res.documents) :
                    /\ Res.documents[i].similarity_score <= 1000
                    /\ Res.documents[i].embedding_score >= 0
                          => Res.documents[i].similarity_score >= 0

\* a returned document whose score the cap cut down to 1.0, next to one
\* with a negative embedding score and a negative finalScore
C2_Witness ==
    /\ Returned
    /\ \E i \in Indices(Res.documents) :
          /\ Res.documents[i].similarity_score = 1000
          /\ Res.documents[i].is_same_project
          /\ Res.documents[i].keyword_score.some
          /\ 7 * Res.documents[i].embedding_score
               + 3 * Val(Res.documents[i].keyword_score) + 150 > 1000
    /\ \E i \in Indices(Res.documents) :
          /\ Res.documents[i].embedding_score < 0
          /\ Res.documents[i].similarity_score < 0

\* C3: with an empty query aurora_search returns no document, total_found 0
\* and the mode label of use_hybrid, and issues no external call.
C3_EmptyQuery ==
    (Returned /\ req.query = <<>>) =>
        /\ Res.documents = <<>>
        /\ Res.total_found = 0
        /\ Res.search_type = (IF req.use_hybrid THEN "hybrid" ELSE "embedding")
        /\ calls = <<>>

\* an empty query returned in embedding mode although expansion and
\* reranking were requested and configured
C3_Witness ==
    /\ Returned /\ req.query = <<>>
    /\ ~ req.use_hybrid /\ req.expand_query /\ req.rerank
    /\ settings.query_expansion_model.some /\ settings.reranking_model.some

\* C4: without reranking the returned documents are in descending order of
\* finalScore, and no admitted row left out scores higher than a returned one.
C4_OrderedAndTopKept ==
    (Returned /\ req.query # <<>> /\ NotReranked) =>
        /\ \A i, j \in Indices(Res.documents) :
              i < j => Res.documents[i].similarity_score >= Res.documents[j].similarity_score
        /\ \A d \in Admitted(CurrentRows, req, query) :
              (\A i \in Indices(Res.documents) : Res.documents[i].id # d.id)
                => \A i \in Indices(Res.documents) :
                      final_score_sql(d, req, query) <= Res.documents[i].similarity_score

\* two documents returned with different scores while an admitted row was
\* cut off by the limit
C4_Witness ==
    /\ Returned /\ req.query # <<>> /\ NotReranked
    /\ Len(Res.documents) = 2
    /\ Res.documents[1].similarity_score > Res.documents[2].similarity_score
    /\ Cardinality(Admitted(CurrentRows, req, query)) > 2

\* the stored documents that pass the filters of the request
PassingFilters == {d \in CurrentRows : FilterWhere(d, req)}
Ids(docs) == {docs[i].id : i \in Indices(docs)}

\* C5: in embedding-only mode every returned document has
\* embeddingScore > threshold, and the documents taken from the store are,
\* up to the limit, all the filtered ones with embeddingScore > threshold.
C5_EmbeddingOnlyThreshold ==
    (Executed /\ ~ req.use_hybrid) =>
        LET eligible == {d \in PassingFilters : d.embedding_score > req.threshold}
        IN  /\ Ids(documents) \subseteq {d.id : d \in eligible}
            /\ Len(documents) = Min(req.limit, Cardinality(eligible))
            /\ Returned => \A i \in Indices(Res.documents) :
                              Res.documents[i].embedding_score > req.threshold

\* an embedding-only search returned a document while a filtered document
\* sat exactly at the threshold
C5_Witness ==
    /\ Returned /\ req.query # <<>> /\ ~ req.use_hybrid
    /\ Res.documents # <<>>
    /\ \E d \in PassingFilters : d.embedding_score = req.threshold

\* str.isalnum() on the characters of the model: the letters, the digits
\* and the superscript two
Alnum == {"a", "b", "d", "q", "s", "x", "D", "B"} \cup DigitChars \cup {SUPERSCRIPT_TWO}

\* the text holds a letter, a digit or an underscore: what is left of it
\* after the sanitizing is not empty
HasWord(q) == \E i \in 1..Len(q) : q[i] \in Alnum \cup {"_"}

\* C6: in hybrid mode with a non-empty tsquery the documents taken from the
\* store are, up to the limit, exactly the filtered ones with
\* embeddingScore > threshold or a lexical match.
C6_HybridAdmission ==
    (Executed /\ req.use_hybrid /\ HasWord(query)) =>
        LET tsq == build_tsquery(query)
            eligible == {d \in store :
                            /\ FilterWhere(d, req)
                            /\ \/ d.embedding_vector[Val(query_embedding)] > req.threshold
                               \/ ContentMatches(d, tsq)}
        IN  /\ Ids(documents) \subseteq {d.id : d \in eligible}
            /\ Len(documents) = Min(req.limit, Cardinality(eligible))

\* a hybrid search returned a lexical match at or below the threshold while
\* a filter kept another lexical match out
C6_Witness ==
    /\ Returned /\ req.use_hybrid /\ build_tsquery(query) # <<>>
    /\ \E i \in Indices(documents) :
          /\ documents[i].embedding_score <= req.threshold
          /\ Val(documents[i].keyword_score) > 0
    /\ \E d \in CurrentRows : d.content_match /\ ~ FilterWhere(d, req)

\* C7: the score of a returned document before the boost is
\* 0.7 * embeddingScore + 0.3 * keywordScore in hybrid mode with a non-empty
\* tsquery, and embeddingScore otherwise (no keyword score is reported then).
C7_Fusion ==
    Returned => \A i \in Indices(Res.documents) :
        LET x == Res.documents[i]
            lexical == req.use_hybrid /\ HasWord(query)
            fused == IF lexical
                     THEN 7 * x.embedding_score + 3 * Val(x.keyword_score)
                     ELSE 10 * x.embedding_score
        IN  /\ x.keyword_score.some <=> lexical
            /\ x.similarity_score \in {fused, Min(1000, fused + 150)}
            /\ ~ x.is_same_project => x.similarity_score = fused

\* the example of the specification: 0.7 * 0.7 + 0.3 * 0.9 = 0.76
C7_Witness ==
    /\ Returned
    /\ \E i \in Indices(Res.documents) :
          /\ Res.documents[i].embedding_score = 70
          /\ Res.documents[i].keyword_score = Some(90)
          /\ Res.documents[i].similarity_score = 760

\* C8: a returned document whose project path is the supplied current
\* project path has finalScore = min(1.0, fused + 0.15); every other one
\* keeps its fused score.
C8_ProjectBoost ==
    Returned => \A i \in Indices(Res.documents) :
        LET x == Res.documents[i]
            fused == IF x.keyword_score.some
                     THEN 7 * x.embedding_score + 3 * Val(x.keyword_score)
                     ELSE 10 * x.embedding_score
            same == /\ req.current_project_path.some
                    /\ x.project_path.some
                    /\ Val(x.project_path) = Val(req.current_project_path)
        IN  x.similarity_score = IF same THEN Min(1000, fused + 150) ELSE fused

\* the examples of the specification: 0.7 -> 0.85 and 0.95 -> 1.0
C8_Witness ==
    /\ Returned
    /\ req.current_project_path = Some(P_PROJ)
    /\ \E i, j \in Indices(Res.documents) :
          /\ Res.documents[i].embedding_score = 95
          /\ Res.documents[i].similarity_score = 1000
          /\ Res.documents[j].embedding_score = 70
          /\ Res.documents[j].similarity_score = 850

\* the chat call of the Reranker answered with a content that names no
\* document of the list
NamesNoDocument(out) ==
    /\ out.kind = "content"
    /\ LET ranking == ParseRanking(IF out.content.some THEN out.content.v ELSE <<>>)
       IN  /\ ranking.some
           /\ \A k \in Indices(Val(ranking)) :
                 Val(ranking)[k] < 0 \/ Val(ranking)[k] >= Len(documents)

\* the chat call of the Reranker answered with a content that holds a token
\* of digits int() cannot convert
UnreadableNumber(out) ==
    /\ out.kind = "content"
    /\ ~ ParseRanking(IF out.content.some THEN out.content.v ELSE <<>>).some

RerankerFailed(out) ==
    out.kind \in {"raise", "no_choices"} \/ UnreadableNumber(out) \/ NamesNoDocument(out)

RerankCalled == \E k \in Indices(calls) : calls[k].call = "llm_rerank"

\* reranking is not requested, or no reranking model is configured: the
\* Reranker is not invoked
C9_NeverInvoked ==
    (~ req.rerank \/ ~ settings.reranking_model.some) =>
        ~ RerankCalled /\ ~ rerank_ret.some /\ pc # "await_rerank"

\* C9 as stated: when the Reranker fails (its chat call raises or answers
\* with an unusable response) aurora_search returns exactly the fused
\* documents in their fused order; without a request for reranking or without
\* a configured model the Reranker is never invoked.
C9_FallbackExact ==
    /\ (Returned /\ rerank_ret.some /\ RerankerFailed(Val(llm)))
          => Res.documents = documents
    /\ C9_NeverInvoked

\* C9 amended: when the chat call raises or answers with no choice or with
\* a number int() cannot convert, aurora_search returns exactly the fused documents in their fused order;
\* when it answers with a content that names no document, aurora_search
\* returns the first min(reranking_top_k, n) fused documents in their fused
\* order; without a request for reranking or without a configured model the
\* Reranker is never invoked.
C9_FallbackUpToTopK ==
    /\ (Returned /\ rerank_ret.some
           /\ (Val(llm).kind \in {"raise", "no_choices"} \/ UnreadableNumber(Val(llm))))
          => Res.documents = documents
    /\ (Returned /\ rerank_ret.some /\ NamesNoDocument(Val(llm)))
          => Res.documents =
               SubSeq(documents, 1, Min(settings.reranking_top_k, Len(documents)))
    /\ C9_NeverInvoked

\* the chat call raised on a list of two documents and both came back, with
\* a reranking_top_k of 1
C9_Witness ==
    /\ Returned /\ rerank_ret.some
    /\ Val(llm).kind = "raise"
    /\ settings.reranking_top_k = 1
    /\ Len(documents) = 2
    /\ Res.documents = documents

\* C10: when the chat call inside Reranker.rerank raises, rerank raises: it
\* returns no list, neither a partial nor the original one.
C10_RerankPropagates ==
    (rerank_ret.some /\ Val(llm).kind = "raise") =>
        /\ Val(rerank_ret).raised
        /\ Val(rerank_ret).called
        /\ Val(rerank_ret).docs = <<>>

\* rerank raised on a list of two documents
C10_Witness ==
    /\ rerank_ret.some
    /\ Val(llm).kind = "raise"
    /\ Val(rerank_ret).raised
    /\ Len(documents) = 2

----------------------------------------------------------------------------
(* Reranker.rerank on its own: every candidate list and every answer *)

\* the largest number of candidates handed to rerank
MaxCandidates == 3

Candidate(i) == [id |-> i]

\* the candidate lists: up to MaxCandidates distinct documents in any order
CandidateLists ==
    { [k \in 1..Len(s) |-> Candidate(s[k])] :
        s \in { t \in UNION { [1..n -> 1..MaxCandidates] : n \in 0..MaxCandidates } :
                  \A a, b \in 1..Len(t) : a # b => t[a] # t[b] } }

\* the values of reranking_top_k
TopKs == {1, 2, DEFAULT_TOP_K}

RerankSettings ==
    { [ query_expansion_model |-> None, query_expansion_temperature |-> TEMPERATURE_TEXT,
        reranking_model |-> Some(M_NAME), reranking_top_k |-> k ] : k \in TopKs }

\* what the chat model may answer to the ranking prompt of these lists
CandidateRerankOutcomes ==
    RerankOutcomes \cup
    { LlmContent(Some(<<"3", ",", "1">>)),
      LlmContent(Some(<<"1", ",", "3", ",", "2">>)),
      LlmContent(Some(<<"2", "\n", ",", " ", "4", ",", "1">>)),
      LlmContent(Some(<<"2", " ", "1">>)),
      LlmContent(Some(<<SUPERSCRIPT_TWO>>)),
      LlmContent(Some([i \in 1..(INT_MAX_STR_DIGITS + 1) |-> "1"])) }

\* rerank has been handed a candidate list and has issued its chat call
InitRerank ==
    /\ settings \in RerankSettings
    /\ documents \in CandidateLists
    /\ documents # <<>>
    /\ store = {}
    /\ cache = {}
    /\ UnitsIdle
    /\ pc = "await_rerank"
    /\ req = NoRequest
    /\ query = T_DB
    /\ expanded_query = None
    /\ query_embedding = None
    /\ calls = <<ExtCall("llm_rerank", T_DB)>>
    /\ llm = None
    /\ rerank_ret = None
    /\ result = None

NextRerank == \E out \in CandidateRerankOutcomes : RerankReturns(out)

SpecRerank == InitRerank /\ [][NextRerank]_vars

\* rerank returned a list built from an answer of the chat model
RerankAnswered ==
    /\ pc = "done"
    /\ rerank_ret.some
    /\ ~ Val(rerank_ret).raised
    /\ llm.some
    /\ Val(llm).kind = "content"

\* the 1-based indices the answer lists, in the order it lists them: its
\* comma-separated tokens that are decimal numbers
ListedIndices ==
    LET c == Val(llm).content
        toks == RankingTokens(IF c.some THEN c.v ELSE <<>>)
        nums == SelectSeq(toks, LAMBDA t : t # <<>> /\ \A i \in 1..Len(t) : t[i] \in DigitChars)
    IN  [k \in 1..Len(nums) |-> DecimalValue(nums[k])]

\* the k-th smallest number of the set S
KthSmallest(S, k) == CHOOSE x \in S : Cardinality({y \in S : y < x}) = k - 1

\* C11: for every candidate list and every answer of the chat model rerank
\* returns the candidates named by the valid 1-based indices of the answer,
\* in the order the answer lists them, followed by every candidate the
\* answer does not name, in its original relative order, the whole cut to
\* the first top_k
C11_NamedThenRemainder ==
    (pc = "done" /\ rerank_ret.some /\ llm.some /\ Val(llm).kind = "content") =>
      /\ ~ Val(rerank_ret).raised
      /\ LET n == Len(documents)
            valid == SelectSeq(ListedIndices, LAMBDA i : i \in 1..n)
            unnamed == (1..n) \ {valid[k] : k \in 1..Len(valid)}
            emitted == Val(rerank_ret).docs
        IN  /\ Len(emitted) =
                  Min(settings.reranking_top_k, Len(valid) + Cardinality(unnamed))
            /\ \A p \in 1..Len(emitted) :
                  emitted[p] = IF p <= Len(valid)
                               THEN documents[valid[p]]
                               ELSE documents[KthSmallest(unnamed, p - Len(valid))]

----------------------------------------------------------------------------
(* services/summarizer.py *)

SUMMARY_MIN_LENGTH == 50
SUMMARY_MAX_LENGTH == 1000
SUMMARY_MAX_NEWLINES == 5
\* the marker appended to a truncated summary
ELLIPSIS == <<".", ".", ".">>

\* the defaults of Summarizer.__init__, as the f-string prints them
SUMMARY_TEMPERATURE_TEXT == <<"0", ".", "3">>
SUMMARY_MAX_TOKENS_TEXT == <<"1", "5", "0">>

\* Summarizer._get_cache_key: the md5 digest of
\* "sha256(content)|model|temperature|max_tokens"; both digests are taken
\* to be collision-free and the key is the text digested
SummaryKey(content) ==
    content \o <<"|">> \o M_NAME \o <<"|">> \o SUMMARY_TEMPERATURE_TEXT
            \o <<"|">> \o SUMMARY_MAX_TOKENS_TEXT

\* " ".join(line.strip() for line in summary.split("\n") if line.strip())
CollapseLines(s) ==
    LET lines == SplitOn(s, {"\n"})
        stripped == [i \in 1..Len(lines) |-> Strip(lines[i])]
    IN  Join(SelectSeq(stripped, LAMBDA l : l # <<>>), <<" ">>)

\* "if len(summary) > 1000: summary = summary[:1000] + '...'"
TruncateSummary(summary) ==
    IF Len(summary) > SUMMARY_MAX_LENGTH
    THEN SubSeq(summary, 1, SUMMARY_MAX_LENGTH) \o ELLIPSIS
    ELSE summary

\* validation 4 of summarize: more than five line feeds are collapsed
CleanSummary(summary) ==
    IF Count(summary, "\n") > SUMMARY_MAX_NEWLINES THEN CollapseLines(summary) ELSE summary

\* the part of summarize after the chat call did `out`: the value returned
\* (None or the summary) and the cache afterwards
SummarizeAfterLlm(content, key, c, out) ==
    IF out.kind # "content" THEN [value |-> None, cache |-> c]
    ELSE LET summary == Strip(IF out.content.some THEN out.content.v ELSE <<>>)
         IN  IF \/ summary = <<>>
                \/ Len(summary) >= Len(content)
                \/ Len(summary) < SUMMARY_MIN_LENGTH
             THEN [value |-> None, cache |-> c]
             ELSE LET final == CleanSummary(TruncateSummary(summary))
                  IN  [ value |-> Some(final),
                        cache |-> IF final # <<>> THEN CachePut(c, key, final) ELSE c ]

----------------------------------------------------------------------------
(* QueryExpander.expand and Summarizer.summarize as calls of concurrent     *)
(* tasks of one event loop: a task runs from one await to the next without *)
(* another task running in between; only the clock moves.                  *)

\* the settings of a process whose expansion model is configured
AugmentSettings ==
    [ query_expansion_model |-> Some(M_NAME), query_expansion_temperature |-> TEMPERATURE_TEXT,
      reranking_model |-> None, reranking_top_k |-> DEFAULT_TOP_K ]

\* the cache key of the call op(arg)
TaskKey(op, arg) == IF op = "expand" THEN ExpanderKey(arg, settings) ELSE SummaryKey(arg)
\* the class-level cache the call op uses
StageCache(op) == IF op = "expand" THEN cache ELSE summary_cache

\* no task is between the membership test and the read of the cache
NoTaskReading == \A u \in TaskIds : tasks[u].pc # "hit"

\* expand(arg) or summarize(arg) is called in task t: the input check, the
\* cache key, "if cache_key in self._cache", and on a miss the chat call
AugmentStart(t, op, arg) ==
    /\ tasks[t].pc = "idle"
    /\ NoTaskReading
    /\ tasks' = [tasks EXCEPT ![t] =
          [ pc |-> IF arg = <<>> \/ Strip(arg) = <<>> THEN "returned"
                   ELSE IF ~ Encodable(arg) THEN "raised"
                   ELSE IF CacheHas(StageCache(op), TaskKey(op, arg)) THEN "hit"
                   ELSE "await_llm",
            op |-> op, arg |-> arg, out |-> None, ret |-> None ]]
    /\ UNCHANGED <<settings, cache, summary_cache, fs, file_path, walk, now>>
    /\ UNCHANGED searchVars

\* "cached_result = self._cache[cache_key]; return cached_result": the read
\* raises KeyError when the entry has outlived its TTL since the test
AugmentRead(t) ==
    /\ tasks[t].pc = "hit"
    /\ LET key == TaskKey(tasks[t].op, tasks[t].arg)
           c == StageCache(tasks[t].op)
       IN  tasks' = [tasks EXCEPT ![t] =
              IF CacheHas(c, key)
              THEN [@ EXCEPT !.pc = "returned", !.ret = Some(CacheGet(c, key))]
              ELSE [@ EXCEPT !.pc = "raised"]]
    /\ UNCHANGED <<settings, cache, summary_cache, fs, file_path, walk, now>>
    /\ UNCHANGED searchVars

\* the chat call of task t returns or raises: the validations, the cache
\* write and the return
AugmentLlmReturns(t, out) ==
    /\ tasks[t].pc = "await_llm"
    /\ NoTaskReading
    /\ LET op == tasks[t].op
           arg == tasks[t].arg
           after == IF op = "expand"
                    THEN ExpandAfterLlm(arg, TaskKey(op, arg), cache, out)
                    ELSE SummarizeAfterLlm(arg, TaskKey(op, arg), summary_cache, out)
       IN  /\ tasks' = [tasks EXCEPT ![t] =
                  [@ EXCEPT !.pc = "returned", !.out = Some(out), !.ret = after.value]]
           /\ cache' = IF op = "expand" THEN after.cache ELSE cache
           /\ summary_cache' = IF op = "expand" THEN summary_cache ELSE after.cache
    /\ UNCHANGED <<settings, fs, file_path, walk, now>>
    /\ UNCHANGED searchVars

\* the caller of task t has the value (or the exception) and the task ends
AugmentFinish(t) ==
    /\ tasks[t].pc \in {"returned", "raised"}
    /\ NoTaskReading
    /\ tasks' = [tasks EXCEPT ![t] = IdleTask]
    /\ UNCHANGED <<settings, cache, summary_cache, fs, file_path, walk, now>>
    /\ UNCHANGED searchVars

\* an entry of the summary cache outlives its TTL
SummaryExpires ==
    /\ \E e \in summary_cache : summary_cache' = summary_cache \ {e}
    /\ UNCHANGED <<settings, cache, tasks, fs, file_path, walk, now>>
    /\ UNCHANGED searchVars

\* no search runs
SearchIdle ==
    /\ store = {}
    /\ pc = "idle"
    /\ req = NoRequest
    /\ query = <<>>
    /\ expanded_query = None
    /\ query_embedding = None
    /\ documents = <<>>
    /\ calls = <<>>
    /\ llm = None
    /\ rerank_ret = None
    /\ result = None

\* a process whose caches are empty and whose tasks are idle
InitAugment ==
    /\ settings = AugmentSettings
    /\ cache = {}
    /\ UnitsIdle
    /\ SearchIdle

\* the text of n characters c
Rep(c, n) == [i \in 1..n |-> c]

(* QueryExpander.expand, one call after the other *)

ExpandQueries == { <<>>, <<" ">>, T_DB, <<"D", "b">>, <<SURROGATE>> }

\* what the chat model may answer to the expansion prompt: the answers of
\* the search pipeline and answers at the edges of each validation
ExpandGateOutcomes ==
    ExpansionOutcomes \cup
    { LlmContent(Some(T_DB)),
      LlmContent(Some(<<"D", "B", " ", "x">>)),
      LlmContent(Some(<<"q", "x", " ", "x">>)),
      LlmContent(Some(<<"\"">>)),
      LlmContent(Some(T_DB \o Rep("x", 8))),
      LlmContent(Some(T_DB \o Rep("x", 9))),
      LlmContent(Some(<<"d", "b", ".", "x", ".">>)),
      LlmContent(Some(<<"d", "b", ".", ".", ".">>)),
      LlmContent(Some(<<"d", "b", "\n", "x">>)) }

NextExpand ==
    \/ \E q \in ExpandQueries : AugmentStart(1, "expand", q)
    \/ AugmentRead(1)
    \/ \E out \in ExpandGateOutcomes : AugmentLlmReturns(1, out)
    \/ AugmentFinish(1)
    \/ CacheExpires

SpecExpand == InitAugment /\ [][NextExpand]_vars

\* the gates of expand: the text e is non-empty, contains q whatever the
\* case, is at least as long as q and at most five times as long, has no
\* line feed and at most two periods
PassesExpansionGates(q, e) ==
    /\ e # <<>>
    /\ \E i \in 0..(Len(e) - Len(q)) : Lower(SubSeq(e, i + 1, i + Len(q))) = Lower(q)
    /\ Len(e) >= Len(q)
    /\ Len(e) <= 5 * Len(q)
    /\ \A i \in 1..Len(e) : e[i] # "\n"
    /\ Cardinality({i \in 1..Len(e) : e[i] = "."}) <= 2

\* the tasks whose call of the stage op has returned a value or None
ReturnedCalls(op) == {t \in TaskIds : tasks[t].op = op /\ tasks[t].pc = "returned"}

\* the text of the answer the chat call of task t gave, if it gave one
AnswerText(t) ==
    IF tasks[t].out.some /\ Val(tasks[t].out).kind = "content" /\ Val(tasks[t].out).content.some
    THEN Val(tasks[t].out).content
    ELSE None

\* C12: every text expand(query) returns passes all the gates against
\* query, and an answer of the chat model that passes them once stripped and
\* freed of one pair of surrounding double quotes is returned as it is
C12_ExpansionPassesGates ==
    \A t \in ReturnedCalls("expand") :
        /\ tasks[t].ret.some => PassesExpansionGates(tasks[t].arg, Val(tasks[t].ret))
        /\ ( /\ AnswerText(t).some
             /\ PassesExpansionGates(tasks[t].arg, CleanExpansion(Val(AnswerText(t)))) )
           => tasks[t].ret = Some(CleanExpansion(Val(AnswerText(t))))

\* the quoted, padded answer "db x" to the query "Db" is returned unquoted
C12_Witness ==
    /\ 1 \in ReturnedCalls("expand")
    /\ tasks[1].arg = <<"D", "b">>
    /\ AnswerText(1) = Some(<<" ", "\"", "d", "b", " ", "x", "\"", "\n">>)
    /\ tasks[1].ret = Some(<<"d", "b", " ", "x">>)

\* C14: expand and summarize never raise to their caller, whatever the
\* input, the state of the cache (an entry expiring between the membership
\* test and the read included) and the outcome of the chat call
C14_NeverRaises == \A t \in TaskIds : tasks[t].pc # "raised"

----------------------------------------------------------------------------
(* Properties of aurora_search: expansion, ties, cancellation *)

\* the running search has issued the external call `name`
Issued(name) == \E i \in 1..Len(calls) : calls[i].call = name
\* the argument of that call
CallArg(name) == calls[CHOOSE i \in 1..Len(calls) : calls[i].call = name].arg

\* the text the rest of the search works on: the expansion if there is one,
\* else the caller's query
EffectiveQuery == IF expanded_query.some THEN Val(expanded_query) ELSE req.query

\* the answer `out` of the chat model is an expansion of q that passes the gates
AcceptedExpansion(q, out) ==
    /\ out.kind = "content"
    /\ out.content.some
    /\ PassesExpansionGates(q, CleanExpansion(out.content.v))

\* without a configured model, and for a query the expander cannot encode
\* for its cache key, there is no expansion and no chat call; the
\* embedding and the lexical query are computed from the expansion when
\* there is one and from the caller's query otherwise; the response echoes
\* the caller's query and reports the expansion or null
C13_Downstream ==
    /\ ~ ExpansionEnabled(req, settings) => ~ expanded_query.some /\ ~ Issued("llm_expand")
    /\ (Issued("embed") /\ ~ Encodable(req.query)) =>
          ~ expanded_query.some /\ ~ Issued("llm_expand")
    /\ Issued("embed") => CallArg("embed") = EffectiveQuery
    /\ Issued("db") => CallArg("db") = build_tsquery(EffectiveQuery)
    /\ (Returned /\ req.query # <<>>) =>
          /\ Res.original_query = req.query
          /\ Res.expanded_query = expanded_query

\* when the chat call of expand ends, the search goes on with the cleaned
\* answer if it passes the gates and with the caller's query, expanded_query
\* null, if it does not or if the call failed
C13_AtExpansion ==
    \A out \in ExpansionOutcomes :
        ExpandReturns(out) =>
            IF AcceptedExpansion(req.query, out)
            THEN /\ expanded_query' = Some(CleanExpansion(out.content.v))
                 /\ calls'[Len(calls')] =
                        ExtCall("embed", CleanExpansion(out.content.v))
            ELSE /\ expanded_query' = None
                 /\ calls'[Len(calls')] = ExtCall("embed", req.query)

\* C13: a requested expansion that yields nothing (the answer fails the
\* gate, the chat call fails, no model is configured) leaves the embedding
\* and the lexical query computed from the caller's query and expanded_query
\* null; an accepted expansion is what both are computed from, and
\* original_query still echoes the caller's query
C13_ExpansionOrOriginal == [] C13_Downstream /\ [][C13_AtExpansion]_vars

\* the chat model was asked, its answer was not accepted, and the search
\* returned with expanded_query null after embedding the caller's query
C13_Witness ==
    /\ Returned
    /\ req.expand_query
    /\ req.query = T_DB
    /\ Issued("llm_expand")
    /\ Res.expanded_query = None
    /\ CallArg("embed") = T_DB
    /\ CallArg("db") = T_DB
    /\ Res.original_query = T_DB

\* C18: with expand_query and rerank off, the request, the stored documents
\* and the query embedding determine the documents returned, their order and
\* their scores, ties of final_score included
C18_Deterministic ==
    (pc = "await_db" /\ ~ req.expand_query /\ ~ req.rerank) =>
        Cardinality(ExecuteSearch(store, req, query, Val(query_embedding))) = 1

\* every entry of the expander cache is the key of a query with a text that
\* passes the gates against that query
ExpanderCacheValid ==
    \A e \in cache :
        /\ settings.query_expansion_model.some
        /\ \E q \in Queries :
              /\ Encodable(q)
              /\ e.key = ExpanderKey(q, settings)
              /\ PassesExpansionGates(q, e.value)

\* while the search task stays suspended, and when it is cancelled there,
\* nothing is added to the cache, and the cancellation itself leaves the
\* cache as it is
C20_NoWriteWhileSuspended ==
    (pc \in AwaitPoints /\ pc' \in {pc, "cancelled"}) =>
        /\ cache' \subseteq cache
        /\ pc' = "cancelled" => cache' = cache

\* C20: a search cancelled while suspended at an await (the chat call of the
\* expansion, the embedding call, the database query, the chat call of the
\* reranker) leaves the cache as it was before the suspended step, every
\* entry a key with its validated value, and nothing written for the
\* cancelled call
C20_CancelLeavesCache == [] ExpanderCacheValid /\ [][C20_NoWriteWhileSuspended]_vars

\* a search is cancelled at the chat call of its expansion while the cache
\* holds the expansion of an earlier search, and has no entry for its own key
C20_Witness ==
    /\ pc = "cancelled"
    /\ calls # <<>>
    /\ calls[Len(calls)].call = "llm_expand"
    /\ cache # {}
    /\ ~ CacheHas(cache, ExpanderKey(req.query, settings))

----------------------------------------------------------------------------
(* Summarizer.summarize, one call after the other *)

SummaryContents == { <<>>, <<" ">>, Rep("a", 60), Rep("a", 1002) }

\* what the chat model may answer to the summary prompt: answers at the
\* edges of each validation
SummaryGateOutcomes ==
    { LlmRaises, LlmNoChoices, LlmContent(None),
      LlmContent(Some(Rep("b", 49))),
      LlmContent(Some(Rep("b", 50))),
      LlmContent(Some(<<" ">> \o Rep("b", 59) \o <<"\n">>)),
      LlmContent(Some(Rep("b", 60))),
      LlmContent(Some(Rep("b", 1000))),
      LlmContent(Some(Rep("b", 1001))),
      LlmContent(Some(Rep("b", 1002))),
      LlmContent(Some(<<"b">> \o Rep("\n", 5) \o Rep("b", 44))),
      LlmContent(Some(<<"b">> \o Rep("\n", 6) \o Rep("b", 43))) }

NextSummarize ==
    \/ \E c \in SummaryContents : AugmentStart(1, "summarize", c)
    \/ AugmentRead(1)
    \/ \E out \in SummaryGateOutcomes : AugmentLlmReturns(1, out)
    \/ AugmentFinish(1)
    \/ SummaryExpires

SpecSummarize == InitAugment /\ [][NextSummarize]_vars

\* C15: every summary summarize returns is between 50 and 1000 characters
\* long, both included
C15_SummaryLengthInBounds ==
    \A t \in ReturnedCalls("summarize") :
        tasks[t].ret.some =>
            /\ Len(Val(tasks[t].ret)) >= 50
            /\ Len(Val(tasks[t].ret)) <= 1000

\* C16: every summary summarize(content) returns, and every summary in its
\* cache, is non-empty and strictly shorter than content, truncation and
\* line collapsing applied
C16_SummaryShorterThanContent ==
    /\ \A t \in ReturnedCalls("summarize") :
          tasks[t].ret.some =>
              /\ Val(tasks[t].ret) # <<>>
              /\ Len(Val(tasks[t].ret)) < Len(tasks[t].arg)
    /\ \A e \in summary_cache :
          \E c \in SummaryContents :
              /\ e.key = SummaryKey(c)
              /\ e.value # <<>>
              /\ Len(e.value) < Len(c)

----------------------------------------------------------------------------
(* expand and summarize called by concurrent tasks on the shared caches *)

AugmentQueries == { T_DB }
AugmentContents == { Rep("a", 60) }

AugmentExpandOutcomes ==
    { LlmRaises,
      LlmContent(Some(<<"d", "b", " ", "x">>)),
      LlmContent(Some(<<"\"", "d", "b", " ", "a", "\"">>)),
      LlmContent(Some(<<"x">>)) }

AugmentSummaryOutcomes ==
    { LlmNoChoices,
      LlmContent(Some(Rep("b", 49))),
      LlmContent(Some(Rep("b", 50))),
      LlmContent(Some(Rep("b", 55) \o <<"\n">>)) }

NextAugment ==
    \/ \E t \in TaskIds : \E q \in AugmentQueries : AugmentStart(t, "expand", q)
    \/ \E t \in TaskIds : \E c \in AugmentContents : AugmentStart(t, "summarize", c)
    \/ \E t \in TaskIds : AugmentRead(t)
    \/ \E t \in TaskIds :
          /\ tasks[t].op = "expand"
          /\ \E out \in AugmentExpandOutcomes : AugmentLlmReturns(t, out)
    \/ \E t \in TaskIds :
          /\ tasks[t].op = "summarize"
          /\ \E out \in AugmentSummaryOutcomes : AugmentLlmReturns(t, out)
    \/ CacheExpires
    \/ SummaryExpires

SpecAugment == InitAugment /\ [][NextAugment]_vars

\* the gate of summarize on the stripped answer a for the content c
PassesSummaryGate(c, a) == a # <<>> /\ Len(a) < Len(c) /\ Len(a) >= 50

\* each cache maps a key to one value; the keys of the expander cache are
\* keys of queries and their values pass the gates for that query; the keys
\* of the summary cache are keys of contents and their values are non-empty;
\* what a call returns is None or a value that passes
C19_EntriesComplete ==
    /\ \A e, f \in cache : e.key = f.key => e = f
    /\ \A e, f \in summary_cache : e.key = f.key => e = f
    /\ \A e \in cache :
          \E q \in AugmentQueries :
              e.key = ExpanderKey(q, settings) /\ PassesExpansionGates(q, e.value)
    /\ \A e \in summary_cache :
          \E c \in AugmentContents : e.key = SummaryKey(c) /\ e.value # <<>>
    /\ \A t \in ReturnedCalls("expand") :
          tasks[t].ret.some => PassesExpansionGates(tasks[t].arg, Val(tasks[t].ret))

\* an entry that a step puts into a cache is the answer the chat model gave
\* in that step to a task that was waiting with that key, and the answer
\* passed the gate of the stage (for a summary: the stripped answer passed,
\* and the entry is it or its truncated, line-collapsed form)
C19_WrittenFromAnswer ==
    /\ \A e \in cache' \ cache :
          \E t \in TaskIds :
              /\ tasks[t].pc = "await_llm" /\ tasks[t].op = "expand"
              /\ tasks'[t].pc = "returned"
              /\ e.key = ExpanderKey(tasks[t].arg, settings)
              /\ tasks'[t].out.some
              /\ Val(tasks'[t].out).kind = "content"
              /\ Val(tasks'[t].out).content.some
              /\ e.value = CleanExpansion(Val(tasks'[t].out).content.v)
              /\ PassesExpansionGates(tasks[t].arg, e.value)
    /\ \A e \in summary_cache' \ summary_cache :
          \E t \in TaskIds :
              /\ tasks[t].pc = "await_llm" /\ tasks[t].op = "summarize"
              /\ tasks'[t].pc = "returned"
              /\ e.key = SummaryKey(tasks[t].arg)
              /\ tasks'[t].out.some
              /\ Val(tasks'[t].out).kind = "content"
              /\ Val(tasks'[t].out).content.some
              /\ LET a == Strip(Val(tasks'[t].out).content.v)
                 IN  /\ PassesSummaryGate(tasks[t].arg, a)
                     /\ e.value \in {a, CleanSummary(TruncateSummary(a))}

\* C19: in every interleaving of concurrent expand and summarize calls, the
\* calls of one key that both miss and both ask the chat model included,
\* every cache entry is at all times one key with one value, the value was
\* given by a chat call made for that key and passed the gate of the stage
C19_CacheNeverCorrupted == [] C19_EntriesComplete /\ [][C19_WrittenFromAnswer]_vars

\* two tasks expanded the same query, both missed the cache and both asked
\* the chat model; their answers differ and the cache holds an entry
C19_Witness ==
    \E t, u \in ReturnedCalls("expand") :
        /\ t # u
        /\ tasks[t].arg = tasks[u].arg
        /\ tasks[t].out.some /\ tasks[u].out.some
        /\ tasks[t].ret.some /\ tasks[u].ret.some
        /\ tasks[t].ret # tasks[u].ret
        /\ CacheHas(cache, ExpanderKey(tasks[t].arg, settings))

----------------------------------------------------------------------------
(* utils/project_detector.py.  A path is the sequence of its component      *)
(* names below the root "/", a name is a text; the root is <<>>.  The file  *)
(* system is a set of entries: directories, files and symbolic links.      *)

PROJECT_ROOT_MARKERS ==
    << <<".", "g", "i", "t">>,
       <<".", "h", "g">>,
       <<".", "s", "v", "n">>,
       <<"p", "y", "p", "r", "o", "j", "e", "c", "t", ".", "t", "o", "m", "l">>,
       <<"p", "a", "c", "k", "a", "g", "e", ".", "j", "s", "o", "n">>,
       <<"C", "a", "r", "g", "o", ".", "t", "o", "m", "l">>,
       <<"g", "o", ".", "m", "o", "d">>,
       <<"p", "o", "m", ".", "x", "m", "l">>,
       <<"b", "u", "i", "l", "d", ".", "g", "r", "a", "d", "l", "e">>,
       <<"C", "M", "a", "k", "e", "L", "i", "s", "t", "s", ".", "t", "x", "t">>,
       <<"c", "o", "m", "p", "o", "s", "e", "r", ".", "j", "s", "o", "n">>,
       <<"G", "e", "m", "f", "i", "l", "e">>,
       <<".", "p", "r", "o", "j", "e", "c", "t">> >>

\* Path.parent: the root is its own parent
Parent(p) == IF p = <<>> THEN <<>> ELSE SubSeq(p, 1, Len(p) - 1)

\* Path.suffix of the final component: the part from the last dot on, when
\* that dot is neither the first nor the last character of the name
HasSuffix(p) ==
    /\ p # <<>>
    /\ LET name == p[Len(p)]
           dots == {i \in 1..Len(name) : name[i] = "."}
       IN  /\ dots # {}
           /\ LET last == CHOOSE i \in dots : \A j \in dots : j <= i
              IN  1 < last /\ last < Len(name)

\* the name "..", the longest name a directory can hold, and the character
\* no path may contain
N_DOTDOT == <<".", ".">>
NAME_MAX == 255
NUL == "U+0000"

\* what the file system holds at the path p: "dir", "file", "link" or "none"
KindOf(f, p) ==
    IF p = <<>> THEN "dir"
    ELSE IF \E e \in f : e.path = p THEN (CHOOSE e \in f : e.path = p).kind
    ELSE "none"

\* os.readlink(p): links point to absolute paths
Target(f, p) == (CHOOSE e \in f : e.path = p).target

\* the links met so far: a link is kept with None while it is being
\* resolved and with its resolved path afterwards
Mark(seen, p, to) == {s \in seen : s.link # p} \cup {[link |-> p, to |-> to]}
SeenAs(seen, p) == (CHOOSE s \in seen : s.link = p).to

RECURSIVE JoinRealpath(_, _, _, _)
RECURSIVE FollowLink(_, _, _, _)
RECURSIVE AfterLink(_, _, _, _)

\* the link at newpath has been resolved to sub, or a loop was found in it
AfterLink(f, newpath, rest, sub) ==
    IF ~ sub.ok
    THEN [path |-> sub.path \o rest, ok |-> FALSE, seen |-> sub.seen]
    ELSE JoinRealpath(f, sub.path, rest, Mark(sub.seen, newpath, Some(sub.path)))

\* newpath is a link: it is replaced by the resolved path of its target; a
\* link met again while it is being resolved is a loop
FollowLink(f, newpath, rest, seen) ==
    IF \E s \in seen : s.link = newpath
    THEN IF SeenAs(seen, newpath).some
         THEN JoinRealpath(f, Val(SeenAs(seen, newpath)), rest, seen)
         ELSE [path |-> newpath \o rest, ok |-> FALSE, seen |-> seen]
    ELSE AfterLink(f, newpath, rest,
                   JoinRealpath(f, <<>>, Target(f, newpath), Mark(seen, newpath, None)))

\* os.path.realpath, not strict: the names of rest are joined to the
\* resolved path one by one, ".." takes the last name off, a name that is a
\* link is followed; ok is FALSE when a link loop was found
JoinRealpath(f, path, rest, seen) ==
    IF rest = <<>> THEN [path |-> path, ok |-> TRUE, seen |-> seen]
    ELSE IF Head(rest) = N_DOTDOT
    THEN JoinRealpath(f, Parent(path), Tail(rest), seen)
    ELSE IF KindOf(f, Append(path, Head(rest))) = "link"
    THEN FollowLink(f, Append(path, Head(rest)), Tail(rest), seen)
    ELSE JoinRealpath(f, Append(path, Head(rest)), Tail(rest), seen)

RECURSIVE NormInto(_, _)
\* os.path.abspath of an absolute path: ".." takes the last name off, by
\* the text alone
NormInto(done, rest) ==
    IF rest = <<>> THEN done
    ELSE IF Head(rest) = N_DOTDOT THEN NormInto(Parent(done), Tail(rest))
    ELSE NormInto(Append(done, Head(rest)), Tail(rest))
Abspath(p) == NormInto(<<>>, p)

\* the number of leading names of the link-free path p that exist
ExistingPrefix(f, p) ==
    CHOOSE k \in 0..Len(p) :
        /\ \A j \in 0..k : KindOf(f, SubSeq(p, 1, j)) # "none"
        /\ k < Len(p) => KindOf(f, SubSeq(p, 1, k + 1)) = "none"

\* os.stat of the link-free path p, the first k names of which exist: the
\* kind of what is there, or the error
StatAt(f, p, k) ==
    IF k = Len(p) THEN KindOf(f, p)
    ELSE IF KindOf(f, SubSeq(p, 1, k)) # "dir" THEN "ENOTDIR"
    ELSE IF Len(p[k + 1]) > NAME_MAX THEN "ENAMETOOLONG"
    ELSE "ENOENT"

\* os.stat(p), links followed
StatOf(f, real) == IF real.ok THEN StatAt(f, real.path, ExistingPrefix(f, real.path))
                   ELSE "ELOOP"
Stat(f, p) == StatOf(f, JoinRealpath(f, <<>>, p, {}))

\* Path.exists(): "yes", "no" for the errors it ignores (ENOENT, ENOTDIR,
\* ELOOP), "OSError" for the others; Path.is_file()
ExistsOf(st) == IF st \in {"dir", "file"} THEN "yes"
                ELSE IF st = "ENAMETOOLONG" THEN "OSError"
                ELSE "no"
Exists(f, p) == ExistsOf(Stat(f, p))
IsFile(f, p) == Stat(f, p) = "file"

\* Path.resolve(): os.path.realpath gives abspath of what _joinrealpath
\* made, which after a link loop is the path up to the loop and the names
\* left, not resolved; then os.stat of the result is tried and RuntimeError
\* is raised (raised is TRUE) when that fails with ELOOP
Resolve(f, p) ==
    [ raised |-> Stat(f, Abspath(JoinRealpath(f, <<>>, p, {}).path)) = "ELOOP",
      path |-> Abspath(JoinRealpath(f, <<>>, p, {}).path) ]

\* an argument of find_project_root: None, the empty string, or the
\* absolute path of the given components
EmptyString == [abs |-> FALSE, parts |-> <<>>]
AbsPath(parts) == [abs |-> TRUE, parts |-> parts]

\* _normalize_start_path after Path.resolve() gave path
StartOf(f, path, exists) ==
    IF exists = "OSError" THEN None
    ELSE IF exists = "yes"
    THEN IF IsFile(f, path) THEN Some(Parent(path)) ELSE Some(path)
    ELSE IF HasSuffix(path) THEN Some(Parent(path)) ELSE Some(path)

\* _normalize_start_path: the directory the walk starts from in dir, None
\* for the empty string, for a path with the character NUL (ValueError) and
\* when exists() raises OSError; raised is TRUE when RuntimeError leaves it
NormalizeStartPath(f, fp) ==
    IF fp = EmptyString THEN [raised |-> FALSE, dir |-> None]
    ELSE IF \E i \in 1..Len(fp.parts) : \E j \in 1..Len(fp.parts[i]) : fp.parts[i][j] = NUL
    THEN [raised |-> FALSE, dir |-> None]
    ELSE IF Resolve(f, fp.parts).raised
    THEN [raised |-> TRUE, dir |-> None]
    ELSE [ raised |-> FALSE,
           dir |-> StartOf(f, Resolve(f, fp.parts).path,
                           Exists(f, Resolve(f, fp.parts).path)) ]

\* _candidate_directories: [start_path] + list(start_path.parents)
CandidateDirectories(start) ==
    [k \in 1..(Len(start) + 1) |-> SubSeq(start, 1, Len(start) + 1 - k)]

\* (candidate / marker).exists() for the k-th marker
MarkerExists(f, candidate, k) == Exists(f, Append(candidate, PROJECT_ROOT_MARKERS[k]))

\* "for marker in PROJECT_ROOT_MARKERS: if (candidate / marker).exists()":
\* "found" at the first marker that exists, "OSError" when exists() raises
\* at a marker before any is found, else "none"
MarkersIn(f, candidate) ==
    IF \A k \in 1..Len(PROJECT_ROOT_MARKERS) : MarkerExists(f, candidate, k) = "no"
    THEN "none"
    ELSE LET first == CHOOSE k \in 1..Len(PROJECT_ROOT_MARKERS) :
                        /\ MarkerExists(f, candidate, k) # "no"
                        /\ \A j \in 1..(k - 1) : MarkerExists(f, candidate, j) = "no"
         IN  IF MarkerExists(f, candidate, first) = "yes" THEN "found" ELSE "OSError"

\* the deepest path handed to find_project_root
MaxDepth == 4

N_O == <<"o">>
N_I == <<"i">>
N_SRC == <<"s", "r", "c">>
N_INDEX == <<"i", "n", "d", "e", "x", ".", "j", "s">>
N_LINK == <<"l", "i", "n", "k", ".", "p", "y">>
N_NEW == <<"n", "e", "w">>
N_NEWPY == <<"n", "e", "w", ".", "p", "y">>
N_HIDDEN == <<".", "e", "n", "v">>
N_L == <<"l">>
N_A == <<"a">>
N_LOOP == <<"l", "o", "o", "p">>
N_LONG == [i \in 1..(NAME_MAX + 1) |-> "a"]
N_NUL == <<"x", NUL>>

Dir(p) == [path |-> p, kind |-> "dir", target |-> <<>>]
File(p) == [path |-> p, kind |-> "file", target |-> <<>>]
Link(p, to) == [path |-> p, kind |-> "link", target |-> to]

\* everything the file systems of the model may hold: an outer and an inner
\* project, each with its own markers, a source file, a link to it, a link
\* to that link, a link to the outer directory, a link to itself, a marker
\* that is a link to a name no directory can hold, and a marker in the root
\* directory
Universe ==
    { Dir(<<N_O>>),
      File(<<N_O, PROJECT_ROOT_MARKERS[4]>>),
      Dir(<<N_O, PROJECT_ROOT_MARKERS[1]>>),
      Dir(<<N_O, N_I>>),
      File(<<N_O, N_I, PROJECT_ROOT_MARKERS[5]>>),
      Dir(<<N_O, N_I, N_SRC>>),
      File(<<N_O, N_I, N_SRC, N_INDEX>>),
      Link(<<N_O, N_LINK>>, <<N_O, N_I, N_SRC, N_INDEX>>),
      Link(<<N_O, N_A>>, <<N_O, N_LINK>>),
      Link(<<N_L>>, <<N_O>>),
      Link(<<N_LOOP>>, <<N_LOOP>>),
      Link(<<N_O, N_I, N_SRC, PROJECT_ROOT_MARKERS[2]>>, <<N_LONG>>),
      File(<<PROJECT_ROOT_MARKERS[13]>>) }

\* the file systems: every entry lies in a directory that exists
FileSystems ==
    { f \in SUBSET Universe :
        \A e \in f : Len(e.path) > 1 => Dir(Parent(e.path)) \in f }

\* the arguments: None, "", existing files, directories and links, paths
\* through a link and through "..", paths that do not exist, with and
\* without a suffix, with an over-long name and with the character NUL
DetectPaths ==
    { None, Some(EmptyString) } \cup
    { Some(AbsPath(p)) :
        p \in { q \in { <<>>, <<N_O>>, <<N_O, N_I>>, <<N_O, N_I, N_SRC>>,
                       <<N_O, N_I, N_SRC, N_INDEX>>, <<N_O, N_LINK>>,
                       <<N_O, PROJECT_ROOT_MARKERS[1]>>,
                       <<N_O, N_I, N_NEWPY>>, <<N_O, N_I, N_NEW>>,
                       <<N_O, N_I, N_HIDDEN>>, <<N_NEW, N_NEWPY>>,
                       <<N_O, N_I, N_SRC, N_NEW, N_NEWPY>>,
                       <<N_L, N_I, N_SRC, N_INDEX>>, <<N_L, N_NEWPY>>,
                       <<N_O, N_I, N_DOTDOT>>, <<N_O, N_A>>,
                       <<N_LOOP>>, <<N_LOOP, N_NEWPY>>,
                       <<N_LOOP, N_DOTDOT>>, <<N_LOOP, N_DOTDOT, N_O>>,
                       <<N_LOOP, N_DOTDOT, N_L, N_NEWPY>>,
                       <<N_O, N_LONG>>, <<N_NEW, N_LONG>>,
                       <<N_O, N_NUL>> } : Len(q) <= MaxDepth } }

InitDetect ==
    /\ fs \in FileSystems
    /\ file_path \in DetectPaths
    /\ walk = IdleWalk
    /\ now = 0
    /\ summary_cache = {}
    /\ tasks = [t \in TaskIds |-> IdleTask]
    /\ settings = AugmentSettings
    /\ cache = {}
    /\ SearchIdle

\* find_project_root(file_path) is called: the start directory and the
\* list of candidates; RuntimeError raised by _normalize_start_path leaves
\* the function
DetectCall ==
    /\ walk.pc = "idle"
    /\ LET start_dir == IF file_path.some
                        THEN NormalizeStartPath(fs, Val(file_path))
                        ELSE [raised |-> FALSE, dir |-> None]
       IN  walk' = IF start_dir.raised
                   THEN [pc |-> "raised", candidates |-> <<>>, ret |-> None]
                   ELSE IF start_dir.dir.some
                   THEN [ pc |-> "walking",
                          candidates |-> CandidateDirectories(Val(start_dir.dir)),
                          ret |-> None ]
                   ELSE [pc |-> "returned", candidates |-> <<>>, ret |-> None]
    /\ UNCHANGED <<settings, cache, summary_cache, tasks, fs, file_path, now>>
    /\ UNCHANGED searchVars

\* one turn of "for candidate in ...": the markers are looked for in the
\* candidate, OSError ends the call with None; the loop ends at a directory
\* that is its own parent and when the list is used up
DetectStep ==
    /\ walk.pc = "walking"
    /\ LET candidate == Head(walk.candidates)
           markers == MarkersIn(fs, candidate)
       IN  walk' = IF markers = "found"
                   THEN [pc |-> "returned", candidates |-> <<>>, ret |-> Some(candidate)]
                   ELSE IF markers = "OSError"
                   THEN [pc |-> "returned", candidates |-> <<>>, ret |-> None]
                   ELSE IF candidate = Parent(candidate) \/ Tail(walk.candidates) = <<>>
                   THEN [pc |-> "returned", candidates |-> <<>>, ret |-> None]
                   ELSE [walk EXCEPT !.candidates = Tail(walk.candidates)]
    /\ UNCHANGED <<settings, cache, summary_cache, tasks, fs, file_path, now>>
    /\ UNCHANGED searchVars

NextDetect == DetectCall \/ DetectStep

SpecDetect == InitDetect /\ [][NextDetect]_vars

\* the directory d holds at least one marker of the marker set: a file, a
\* directory, or a link that leads to one
HoldsMarker(d) ==
    \E k \in 1..Len(PROJECT_ROOT_MARKERS) :
        Stat(fs, Append(d, PROJECT_ROOT_MARKERS[k])) \in {"dir", "file"}

\* the start directory and its ancestors, up to the root
StartAndAncestors(start) == {SubSeq(start, 1, n) : n \in 0..Len(start)}

\* the value returned for the start directory start: the nearest of the
\* start directory and its ancestors that holds a marker, None when none
\* does
C17_NearestOf(start) ==
    LET holders == {d \in StartAndAncestors(start) : HoldsMarker(d)}
    IN  IF holders = {}
        THEN walk.ret = None
        ELSE /\ walk.ret.some
             /\ Val(walk.ret) \in holders
             /\ \A d \in holders : Len(d) <= Len(Val(walk.ret))

\* find_project_root does not raise; it returned the nearest of the start
\* directory and its ancestors that holds a marker, None when none does and
\* when the argument is None or empty
C17_NearestOrNone ==
    /\ walk.pc # "raised"
    /\ walk.pc = "returned" =>
          IF ~ file_path.some \/ Val(file_path) = EmptyString
          THEN walk.ret = None
          ELSE NormalizeStartPath(fs, Val(file_path)).dir.some
                 => C17_NearestOf(Val(NormalizeStartPath(fs, Val(file_path)).dir))

\* the walk is never stuck before it has returned: a directory is left to
\* inspect while the loop runs
C17_NotStuck == walk.pc = "walking" => walk.candidates # <<>>

\* every turn of the loop returns or leaves fewer directories to inspect
C17_FewerLeft ==
    walk.pc = "walking" =>
        \/ walk'.pc = "returned"
        \/ Len(walk'.candidates) < Len(walk.candidates)

\* C17: find_project_root returns the nearest directory, among the
\* normalized start directory and its ancestors, that holds a marker of the
\* marker set, whichever marker; None when no directory up to the root holds
\* one or the path is empty or None; and the walk always ends
C17_NearestMarkerWins ==
    [] (C17_NearestOrNone /\ C17_NotStuck) /\ [][C17_FewerLeft]_vars

----------------------------------------------------------------------------
(* aurora_ingest, aurora_retrieve, aurora_update and aurora_delete         *)
(* (server.py), each a task of the event loop that runs from one await to  *)
(* the next.  A document identifier is a text; the identifier of the       *)
(* stored document i is the UUID whose value is i.                         *)

ALLOWED_DOCUMENT_TYPES == {"document", "conversation", "decision", "resolution", "report"}
MAX_EMBEDDING_TOKENS == 8000

HexChars == DigitChars \cup {"a", "b", "c", "d", "e", "f", "B", "D"}
UUID_HEX_LENGTH == 32

RECURSIVE Remove(_, _)
\* str.replace(old, ''): the occurrences of old are taken out from the left
Remove(s, old) ==
    IF Len(s) < Len(old) THEN s
    ELSE IF SubSeq(s, 1, Len(old)) = old
    THEN Remove(SubSeq(s, Len(old) + 1, Len(s)), old)
    ELSE <<Head(s)>> \o Remove(Tail(s), old)

\* str.strip('{}'): braces removed at both ends
StripBraces(s) ==
    IF \A i \in 1..Len(s) : s[i] \in {"{", "}"}
    THEN <<>>
    ELSE LET a == CHOOSE i \in 1..Len(s) :
                    s[i] \notin {"{", "}"} /\ \A j \in 1..(i - 1) : s[j] \in {"{", "}"}
             b == CHOOSE i \in 1..Len(s) :
                    s[i] \notin {"{", "}"} /\ \A j \in (i + 1)..Len(s) : s[j] \in {"{", "}"}
         IN  SubSeq(s, a, b)

\* int(text, 16) accepts a sign before the number
Unsigned(t) == IF t # <<>> /\ t[1] \in {"+", "-"} THEN Tail(t) ELSE t

\* and the prefix 0x or 0X, which one underscore may follow
Unprefixed(body) ==
    IF Len(body) >= 2 /\ body[1] = "0" /\ body[2] \in {"x", "X"}
    THEN IF Len(body) >= 3 /\ body[3] = "_"
         THEN SubSeq(body, 4, Len(body))
         ELSE SubSeq(body, 3, Len(body))
    ELSE body

\* then hexadecimal digits of either case, single underscores allowed
\* between them
HexDigits(rest) ==
    /\ rest # <<>>
    /\ \A i \in 1..Len(rest) : rest[i] \in HexChars \cup {"_"}
    /\ rest[1] # "_" /\ rest[Len(rest)] # "_"
    /\ \A i \in 1..(Len(rest) - 1) : ~ (rest[i] = "_" /\ rest[i + 1] = "_")

\* int(text, 16): blanks around the number are dropped.  The value is None
\* when ValueError is raised, else the sign and the digits of the number.
IntBase16(text) ==
    LET t == Strip(text)
        rest == Unprefixed(Unsigned(t))
    IN  IF HexDigits(rest)
        THEN Some([ negative |-> t[1] = "-",
                    digits |-> Lower(SelectSeq(rest, LAMBDA c : c # "_")) ])
        ELSE None

\* uuid.UUID(document_id) for a text: "urn:" and "uuid:" are taken out,
\* braces are stripped and dashes removed, what is left must be 32
\* characters that int(hex, 16) accepts as a number from 0 to 2^128 - 1.
\* The value is None when ValueError is raised, else the 32 hexadecimal
\* digits of the number.
ParseUuid(document_id) ==
    LET plain == Remove(Remove(document_id, <<"u", "r", "n", ":">>),
                        <<"u", "u", "i", "d", ":">>)
        hex == SelectSeq(StripBraces(plain), LAMBDA c : c # "-")
        number == IntBase16(hex)
    IN  IF Len(hex) # UUID_HEX_LENGTH THEN None
        ELSE IF ~ number.some THEN None
        ELSE IF Val(number).negative /\ \E i \in 1..Len(Val(number).digits) : Val(number).digits[i] # "0"
        THEN None
        ELSE Some(Rep("0", UUID_HEX_LENGTH - Len(Val(number).digits)) \o Val(number).digits)

\* the value of the identifier of the stored document i
DocUuid(i) == Rep("0", UUID_HEX_LENGTH - 1) \o <<Digits[i + 1]>>

\* str(doc.id): the digits in groups of 8, 4, 4, 4 and 12
UuidStr(h) ==
    SubSeq(h, 1, 8) \o <<"-">> \o SubSeq(h, 9, 12) \o <<"-">> \o SubSeq(h, 13, 16)
      \o <<"-">> \o SubSeq(h, 17, 20) \o <<"-">> \o SubSeq(h, 21, 32)

\* select(Document).where(Document.id == doc_uuid), scalar_one_or_none()
DocById(S, u) == IF \E d \in S : DocUuid(d.id) = u
                 THEN Some(CHOOSE d \in S : DocUuid(d.id) = u)
                 ELSE None

\* a returned dictionary with the key "error", and one without
ErrorResult(msg) == [error |-> Some(msg), id |-> None, updated_fields |-> <<>>]
OkResult(d, fields) == [error |-> None, id |-> Some(UuidStr(DocUuid(d.id))),
                        updated_fields |-> fields]

\* existing_metadata.update(metadata)
MergeMetadata(old, new) ==
    [k \in DOMAIN old \cup DOMAIN new |-> IF k \in DOMAIN new THEN new[k] ELSE old[k]]

\* the largest number of documents the table holds
NumIds == 2
DocIds == 1..NumIds

\* the arguments of the four tools; a field a tool does not take is None
CrudArgs(op, id, content, dt, md, source) ==
    [ op |-> op, document_id |-> id, content |-> content, document_type |-> dt,
      metadata |-> md, source |-> source ]

\* identifiers of the documents 1 and 2 in the canonical form
ID_1 == UuidStr(DocUuid(1))
ID_2 == UuidStr(DocUuid(2))

URN_1 == <<"u", "r", "n", ":", "u", "u", "i", "d", ":">> \o ID_1

\* other texts uuid.UUID reads as the identifier of document 1: as a URN,
\* in braces, after "0x", after a sign, after blanks and with underscores
\* between digits; the identifier of a document never stored, in upper
\* case; texts that are no UUID
OtherDocumentIds ==
    { URN_1,
      <<"{">> \o ID_1 \o <<"}">>,
      <<"0", "x">> \o Rep("0", 29) \o <<"1">>,
      <<"+">> \o Rep("0", 30) \o <<"1">>,
      Rep(" ", 31) \o <<"1">>,
      Rep("0", 29) \o <<"0", "_", "1">>,
      UuidStr(Rep("0", 30) \o <<"B", "D">>),
      <<>>, <<"1">>, UuidStr(Rep("0", 31) \o <<"g">>),
      Rep("0", 29) \o <<"_", "_", "1">>,
      ID_1 \o <<"0">> }

DocumentIds == {ID_1, ID_2} \cup OtherDocumentIds

\* the content, document_type and metadata an aurora_update call is given
UpdatedFields ==
    { <<None, None, None>>,
      <<Some(T_X), None, None>>,
      <<None, Some("bogus"), None>>,
      <<None, None, Some([reviewed |-> BoolV(TRUE)])>>,
      <<None, Some("report"), Some([reviewed |-> BoolV(TRUE)])>> }

CrudTypes == {"report", "bogus"}

CrudRequests ==
    { CrudArgs("ingest", None, Some(T_DB), Some(dt), None, src) :
        dt \in CrudTypes, src \in {None, Some("qc")} }
    \cup { CrudArgs("retrieve", Some(id), None, None, None, None) : id \in DocumentIds }
    \cup { CrudArgs("delete", Some(id), None, None, None, None) :
            id \in {ID_1, ID_2, URN_1, <<"1">>} }
    \cup { CrudArgs("update", Some(id), f[1], f[2], f[3], None) :
            id \in {ID_1, ID_2, <<"1">>}, f \in UpdatedFields }

\* the calls a second task makes while another call is in flight
ConcurrentRequests ==
    { CrudArgs("retrieve", Some(ID_1), None, None, None, None),
      CrudArgs("delete", Some(ID_1), None, None, None, None),
      CrudArgs("update", Some(ID_1), None, Some("report"), None, None) }

\* count_tokens(content): what the tokenizer counts for the content
TokenCounts == {1, MAX_EMBEDDING_TOKENS, MAX_EMBEDDING_TOKENS + 1}

\* the row aurora_ingest adds when it is called without namespace and
\* working_directory: uuid.uuid4() gives an identifier no row has,
\* content_tsv is filled by the trigger of the table
NewDocument(i, r) ==
    [ id |-> i, namespace |-> "default", document_type |-> Val(r.document_type),
      metadata |-> IF r.metadata.some THEN Val(r.metadata) ELSE NoMetadata,
      project_path |-> None,
      embedding_vector |-> <<70, 20>>, content_tsv |-> <<Val(r.content)>>, rank |-> 50 ]

\* the places where a tool call is suspended
CrudAwaitPoints ==
    {"await_select", "await_embed", "await_delete", "await_commit", "await_refresh"}

\* In this part tasks[t] is a tool call: op is the tool, arg its arguments,
\* out what the call holds in its session (the document it loaded, changed
\* or is about to add, with updated_fields), ret the dictionary returned.
crudFrame == <<settings, cache, pc, req, query, expanded_query, query_embedding,
               documents, calls, llm, rerank_ret, result, summary_cache, fs,
               file_path, walk, now>>

Held(d, fields) == Some([doc |-> d, fields |-> fields])

\* the task goes on to the place p, holding h
CrudGoOn(t, p, h) == tasks' = [tasks EXCEPT ![t].pc = p, ![t].out = h]
\* the tool returns the dictionary res
CrudReturn(t, res) == tasks' = [tasks EXCEPT ![t].pc = "done", ![t].ret = Some(res)]
\* an exception leaves the tool
CrudRaise(t) == tasks' = [tasks EXCEPT ![t].pc = "failed"]

\* aurora_ingest up to "await embedding_service.embed(content)"
IngestCall(r, tokens) ==
    IF Val(r.document_type) \notin ALLOWED_DOCUMENT_TYPES
    THEN [pc |-> "done", ret |-> Some(ErrorResult("Invalid document_type"))]
    ELSE IF tokens > MAX_EMBEDDING_TOKENS
    THEN [pc |-> "done", ret |-> Some(ErrorResult("Content exceeds maximum length"))]
    \* settings.agent_id: Settings has no such field, AttributeError
    ELSE IF ~ r.source.some THEN [pc |-> "failed", ret |-> None]
    ELSE [pc |-> "await_embed", ret |-> None]

\* aurora_retrieve, aurora_update and aurora_delete up to
\* "await session.execute(stmt)"
LookupCall(r) ==
    IF ~ ParseUuid(Val(r.document_id)).some
    THEN [pc |-> "done", ret |-> Some(ErrorResult("Invalid document ID format"))]
    ELSE [pc |-> "await_select", ret |-> None]

\* the ingest calls that have not yet added their row
PendingIngests == {t \in TaskIds : tasks[t].op = "ingest" /\ tasks[t].pc \in CrudAwaitPoints}

\* one of the four tools is called in the task t
CrudCall(t, r) ==
    /\ tasks[t].pc = "idle"
    /\ r.op = "ingest" => Cardinality(store) + Cardinality(PendingIngests) < NumIds
    /\ \A u \in TaskIds : u < t => tasks[u].pc # "idle"
    /\ (\E u \in TaskIds : tasks[u].pc \in CrudAwaitPoints) \/ t = 1
    /\ (\E u \in TaskIds : tasks[u].pc # "idle") => r \in ConcurrentRequests
    /\ \E n \in (IF r.op = "ingest" THEN TokenCounts ELSE {1}) :
          LET first == IF r.op = "ingest" THEN IngestCall(r, n) ELSE LookupCall(r)
          IN  tasks' = [tasks EXCEPT ![t] = [ pc |-> first.pc, op |-> r.op, arg |-> r,
                                              out |-> None, ret |-> first.ret ]]
    /\ UNCHANGED store
    /\ UNCHANGED crudFrame

\* aurora_update from the row it loaded up to its next await or its return,
\* when the tokenizer counts `tokens` for a content
UpdateLoaded(t, r, doc, tokens) ==
    IF r.content.some
    THEN IF tokens > MAX_EMBEDDING_TOKENS
         THEN CrudReturn(t, ErrorResult("Content exceeds maximum length"))
         ELSE CrudGoOn(t, "await_embed", Held(doc, <<"content">>))
    ELSE LET d1 == IF r.metadata.some
                   THEN [doc EXCEPT !.metadata = MergeMetadata(doc.metadata, Val(r.metadata))]
                   ELSE doc
             d2 == IF r.document_type.some
                   THEN [d1 EXCEPT !.document_type = Val(r.document_type)]
                   ELSE d1
             updated_fields ==
                 (IF r.metadata.some THEN <<"metadata">> ELSE <<>>)
                 \o (IF r.document_type.some THEN <<"document_type">> ELSE <<>>)
         IN  IF updated_fields = <<>>
             THEN CrudReturn(t, ErrorResult("No fields to update"))
             ELSE CrudGoOn(t, "await_commit", Held(d2, updated_fields))

\* session.execute(stmt) returns the row or none
CrudSelectReturns(t) ==
    /\ tasks[t].pc = "await_select"
    /\ LET r == tasks[t].arg
           doc == DocById(store, Val(ParseUuid(Val(r.document_id))))
       IN  IF ~ doc.some
           THEN CrudReturn(t, ErrorResult("Document not found"))
           ELSE CASE r.op = "retrieve" -> CrudReturn(t, OkResult(Val(doc), <<>>))
                  [] r.op = "delete" -> CrudGoOn(t, "await_delete", Held(Val(doc), <<>>))
                  [] r.op = "update" ->
                        \E n \in (IF r.content.some THEN TokenCounts ELSE {1}) :
                            UpdateLoaded(t, r, Val(doc), n)
    /\ UNCHANGED store
    /\ UNCHANGED crudFrame

\* embedding_service.embed returns.  aurora_ingest goes on to its commit.
\* aurora_update goes on to "settings.summarization_model": Settings has no
\* such field, AttributeError is raised outside the try block and the
\* session is closed without a commit
CrudEmbedReturns(t) ==
    /\ tasks[t].pc = "await_embed"
    /\ IF tasks[t].op = "ingest"
       THEN CrudGoOn(t, "await_commit", None)
       ELSE CrudRaise(t)
    /\ UNCHANGED store
    /\ UNCHANGED crudFrame

\* session.delete(doc) returns: the row is marked, the table is as it was
CrudDeleteReturns(t) ==
    /\ tasks[t].pc = "await_delete"
    /\ CrudGoOn(t, "await_commit", tasks[t].out)
    /\ UNCHANGED store
    /\ UNCHANGED crudFrame

\* the columns the call changed, written to the row of the table
WriteColumns(row, held) ==
    LET has(f) == \E k \in 1..Len(held.fields) : held.fields[k] = f
    IN  [row EXCEPT !.metadata = IF has("metadata") THEN held.doc.metadata ELSE @,
                    !.document_type = IF has("document_type")
                                      THEN held.doc.document_type ELSE @]

\* session.commit() returns: aurora_ingest has added its row under a new
\* identifier, aurora_update has written its columns to the row (when
\* another call deleted the row meanwhile the UPDATE finds no row and
\* commit raises), aurora_delete has removed the row and returns
CrudCommitReturns(t) ==
    /\ tasks[t].pc = "await_commit"
    /\ LET r == tasks[t].arg
       IN  CASE r.op = "ingest" ->
                  \E i \in DocIds :
                      /\ \A d \in store : d.id # i
                      /\ \A u \in TaskIds : tasks[u].out.some => Val(tasks[u].out).doc.id # i
                      /\ store' = store \cup {NewDocument(i, r)}
                      /\ CrudGoOn(t, "await_refresh", Held(NewDocument(i, r), <<>>))
             [] r.op = "update" ->
                  LET held == Val(tasks[t].out)
                      row == {d \in store : d.id = held.doc.id}
                  IN  IF row = {}
                      THEN store' = store /\ CrudRaise(t)
                      ELSE /\ store' = (store \ row) \cup {WriteColumns(d, held) : d \in row}
                           /\ CrudGoOn(t, "await_refresh", tasks[t].out)
             [] r.op = "delete" ->
                  LET held == Val(tasks[t].out)
                  IN  /\ store' = {d \in store : d.id # held.doc.id}
                      /\ CrudReturn(t, OkResult(held.doc, <<>>))
    /\ UNCHANGED crudFrame

\* session.refresh(doc) returns and the tool returns its dictionary; it
\* raises when another call deleted the row meanwhile
CrudRefreshReturns(t) ==
    /\ tasks[t].pc = "await_refresh"
    /\ LET held == Val(tasks[t].out)
       IN  IF \E d \in store : d.id = held.doc.id
           THEN CrudReturn(t, OkResult(held.doc, held.fields))
           ELSE CrudRaise(t)
    /\ UNCHANGED store
    /\ UNCHANGED crudFrame

\* the awaited call raises (the database or the embedding provider cannot
\* be reached): the exception leaves the tool, the session is closed and
\* what was not committed is gone
CrudAwaitFails(t) ==
    /\ tasks[t].pc \in CrudAwaitPoints
    /\ CrudRaise(t)
    /\ UNCHANGED store
    /\ UNCHANGED crudFrame

\* the task is cancelled while it is suspended
CrudCancelled(t) ==
    /\ tasks[t].pc \in CrudAwaitPoints
    /\ tasks' = [tasks EXCEPT ![t].pc = "cancelled"]
    /\ UNCHANGED store
    /\ UNCHANGED crudFrame

\* the caller has the answer (or the exception); the task is over
CrudFinish(t) ==
    /\ tasks[t].pc \in {"done", "failed", "cancelled"}
    /\ tasks' = [tasks EXCEPT ![t] = IdleTask]
    /\ UNCHANGED store
    /\ UNCHANGED crudFrame

\* the table holds the first document of the catalogue, no call runs
InitCrud ==
    /\ settings = AugmentSettings
    /\ cache = {}
    /\ UnitsIdle
    /\ store = {Catalog[1]}
    /\ pc = "idle"
    /\ req = NoRequest
    /\ query = <<>>
    /\ expanded_query = None
    /\ query_embedding = None
    /\ documents = <<>>
    /\ calls = <<>>
    /\ llm = None
    /\ rerank_ret = None
    /\ result = None

NextCrud ==
    \E t \in TaskIds :
        \/ \E r \in CrudRequests : CrudCall(t, r)
        \/ CrudSelectReturns(t)
        \/ CrudEmbedReturns(t)
        \/ CrudDeleteReturns(t)
        \/ CrudCommitReturns(t)
        \/ CrudRefreshReturns(t)
        \/ CrudAwaitFails(t)
        \/ CrudCancelled(t)
        \/ CrudFinish(t)

SpecCrud == InitCrud /\ [][NextCrud]_vars

\* the identifier is no UUID or names no document of the table S
BadIdentifier(r, S) ==
    /\ r.op \in {"retrieve", "update", "delete"}
    /\ \/ ~ ParseUuid(Val(r.document_id)).some
       \/ ~ DocById(S, Val(ParseUuid(Val(r.document_id)))).some

\* the document type is given and lies outside the allowed set
BadDocumentType(r) ==
    /\ r.op \in {"ingest", "update"}
    /\ r.document_type.some
    /\ Val(r.document_type) \notin ALLOWED_DOCUMENT_TYPES

\* a step of the call t whose identifier is no UUID or names no document of
\* the table, or whose document type is outside the allowed set: the table
\* stays as it is, the call does not raise where it tests its input, and
\* when it returns its result has the key "error"
C21_Rejected(t) ==
    LET r == tasks'[t].arg
    IN  (tasks'[t] # tasks[t] /\ tasks'[t].pc # "idle"
           /\ (BadIdentifier(r, store) \/ BadDocumentType(r)))
          => /\ store' = store
             /\ tasks'[t].pc = "done" => Val(tasks'[t].ret).error.some
             /\ tasks[t].pc = "idle" => tasks'[t].pc # "failed"

\* C21: aurora_retrieve, aurora_update and aurora_delete called with an
\* identifier that is no UUID or names no stored document, and aurora_ingest
\* and aurora_update called with a document type outside the allowed set,
\* return a result with an error field, do not raise, and leave the stored
\* documents unchanged
C21_InvalidInputIsAnError ==
    [][\A t \in TaskIds : C21_Rejected(t)]_vars

\* C30: after any sequence of aurora_ingest, aurora_update and aurora_delete
\* calls every stored document has a document type of the allowed set
C30_StoredTypesAllowed == \A d \in store : d.document_type \in ALLOWED_DOCUMENT_TYPES

----------------------------------------------------------------------------
(* aurora_search: the displayed content of a row (server.py, the loop over *)
(* the rows).  A row has here its content and its brief_summary.           *)

CONTENT_PREVIEW_LENGTH == 800

\* content_field: the full content on request, else the brief summary when
\* it is neither None nor empty, else the content cut to 800 characters,
\* with "..." after it when it was longer
ContentField(row, include_full_content) ==
    IF include_full_content THEN row.content
    ELSE IF TruthyText(row.brief_summary) THEN Val(row.brief_summary)
    ELSE IF Len(row.content) > CONTENT_PREVIEW_LENGTH
         THEN SubSeq(row.content, 1, CONTENT_PREVIEW_LENGTH) \o ELLIPSIS
         ELSE row.content

\* has_summary: "row.brief_summary is not None" when the full content is
\* asked for, else the truth value of row.brief_summary
HasSummary(row, include_full_content) ==
    IF include_full_content THEN row.brief_summary.some
    ELSE TruthyText(row.brief_summary)

\* the contents and the summaries of the stored rows
DisplayContents ==
    { Rep("x", n) : n \in {0, 1, CONTENT_PREVIEW_LENGTH - 1, CONTENT_PREVIEW_LENGTH,
                           CONTENT_PREVIEW_LENGTH + 1, CONTENT_PREVIEW_LENGTH + 2,
                           CONTENT_PREVIEW_LENGTH + 200} }
DisplaySummaries == {None, Some(<<>>), Some(T_DB), Some(Rep("a", SUMMARY_MIN_LENGTH))}

\* the statement has returned one row
InitDisplay ==
    /\ settings = AugmentSettings
    /\ cache = {}
    /\ UnitsIdle
    /\ store \in { {[content |-> c, brief_summary |-> s]} :
                     c \in DisplayContents, s \in DisplaySummaries }
    /\ req \in {[include_full_content |-> b] : b \in BOOLEAN}
    /\ pc = "await_db"
    /\ documents = <<>>
    /\ query = <<>>
    /\ expanded_query = None
    /\ query_embedding = None
    /\ calls = <<>>
    /\ llm = None
    /\ rerank_ret = None
    /\ result = None

\* "for row in rows": the entry of documents built from the row
DisplayRows ==
    /\ pc = "await_db"
    /\ \E row \in store :
          documents' = <<[ content |-> ContentField(row, req.include_full_content),
                           has_summary |-> HasSummary(row, req.include_full_content) ]>>
    /\ pc' = "done"
    /\ UNCHANGED <<settings, store, cache, req, query, expanded_query, query_embedding,
                   calls, llm, rerank_ret, result>>
    /\ UNCHANGED unitVars

NextDisplay == DisplayRows

SpecDisplay == InitDisplay /\ [][NextDisplay]_vars

\* C22: the displayed content is the full content when include_full_content
\* is set; otherwise the stored summary when it is present and not empty;
\* otherwise the first 800 characters of the content followed by "..." when
\* the content is longer than 800 characters, and the content itself when it
\* is not; has_summary is true exactly when a stored summary exists
C22_DisplayedContent ==
    pc = "done" =>
        \A row \in store :
            LET doc == documents[1]
            IN  /\ req.include_full_content => doc.content = row.content
                /\ (~ req.include_full_content /\ TruthyText(row.brief_summary))
                       => doc.content = Val(row.brief_summary)
                /\ (~ req.include_full_content /\ ~ TruthyText(row.brief_summary))
                       => IF Len(row.content) > CONTENT_PREVIEW_LENGTH
                          THEN /\ Len(doc.content) = CONTENT_PREVIEW_LENGTH + Len(ELLIPSIS)
                               /\ \A i \in 1..CONTENT_PREVIEW_LENGTH :
                                      doc.content[i] = row.content[i]
                               /\ \A i \in 1..Len(ELLIPSIS) :
                                      doc.content[CONTENT_PREVIEW_LENGTH + i] = ELLIPSIS[i]
                          ELSE doc.content = row.content
                /\ doc.has_summary <=> row.brief_summary.some

----------------------------------------------------------------------------
(* Reranker.rerank on lists longer than the prompt shows *)

\* "for i, doc in enumerate(documents[:20])": the prompt shows 20 documents
RERANK_PROMPT_DOCS == 20

\* the candidate lists: the candidates 1, 2, ... in this order, of the
\* lengths around the number the prompt shows
LongCandidateLists ==
    { [k \in 1..n |-> Candidate(k)] :
        n \in (RERANK_PROMPT_DOCS - 1)..(RERANK_PROMPT_DOCS + 3) }

LongRerankSettings ==
    { [ query_expansion_model |-> None, query_expansion_temperature |-> TEMPERATURE_TEXT,
        reranking_model |-> Some(M_NAME), reranking_top_k |-> k ]
      : k \in {DEFAULT_TOP_K, RERANK_PROMPT_DOCS + 1, RERANK_PROMPT_DOCS + 5} }

\* what the chat model may answer to the ranking prompt of these lists
LongRerankOutcomes ==
    { LlmRaises, LlmContent(None),
      LlmContent(Some(<<"2", ",", "1">>)),
      LlmContent(Some(<<"2", "0", ",", "1", "9">>)),
      LlmContent(Some(<<"2", "1">>)),
      LlmContent(Some(<<"3", ",", "2", "2", ",", "1">>)),
      LlmContent(Some(<<"2", "3", ",", "2", "2">>)),
      LlmContent(Some(<<"9", "9">>)),
      LlmContent(Some(<<"2", "1", ",", SUPERSCRIPT_TWO>>)) }

InitRerankLong ==
    /\ settings \in LongRerankSettings
    /\ documents \in LongCandidateLists
    /\ store = {}
    /\ cache = {}
    /\ UnitsIdle
    /\ pc = "await_rerank"
    /\ req = NoRequest
    /\ query = T_DB
    /\ expanded_query = None
    /\ query_embedding = None
    /\ calls = <<ExtCall("llm_rerank", T_DB)>>
    /\ llm = None
    /\ rerank_ret = None
    /\ result = None

NextRerankLong == \E out \in LongRerankOutcomes : RerankReturns(out)

SpecRerankLong == InitRerankLong /\ [][NextRerankLong]_vars

\* C24: the model reorders only the first 20 candidates: whatever it answers,
\* the candidates at positions 21 and beyond come after all of the first 20
\* candidates in the returned list, in their original relative order
C24_TailUntouched ==
    (pc = "done" /\ rerank_ret.some /\ ~ Val(rerank_ret).raised) =>
        LET out == Val(rerank_ret).docs
        IN  \A p, q \in 1..Len(out) :
                (p < q /\ out[p].id > RERANK_PROMPT_DOCS)
                    => (out[q].id > RERANK_PROMPT_DOCS /\ out[p].id < out[q].id)

\* C25: for every candidate list and every answer the returned list holds
\* each candidate of the input at most once and nothing else, and its length
\* is min(top_k, number of candidates)
C25_EachCandidateOnce ==
    (pc = "done" /\ rerank_ret.some /\ ~ Val(rerank_ret).raised) =>
        LET out == Val(rerank_ret).docs
        IN  /\ \A p \in 1..Len(out) : \E k \in 1..Len(documents) : out[p] = documents[k]
            /\ \A p, q \in 1..Len(out) : p # q => out[p] # out[q]
            /\ Len(out) = Min(settings.reranking_top_k, Len(documents))

----------------------------------------------------------------------------
(* aurora_search from the embedding call on, for query texts that hold     *)
(* quotes, parentheses, operators and blanks                               *)

LexicalQueries ==
    { T_DB,
      <<"d", "'", "b">>,
      <<"(", "d", "b", ")", "|", "x">>,
      <<"!">>,
      <<" ">>,
      <<"'", ")", ":", "*">>,
      <<"d", "b", "!", " ", " ", "x">>,
      <<"x", "_", "1">>,
      <<"a", "&", "b">>,
      <<"\t", "d", "b", "\n">>,
      <<"!", "a", " ", "&", " ", "!", "x", "<", "-", ">">>,
      <<"D", "B">>,
      <<"a">>,
      <<"a", "_", "d", "b">>,
      <<"a", "1", "s">>,
      <<"a", "d", "s">>,
      <<"d", "b", "_", "x">>,
      <<SUPERSCRIPT_TWO>>,
      <<"d", SUPERSCRIPT_TWO, "b">>,
      <<"d", SURROGATE, "b">> }

LexicalRequests ==
    { [ query |-> q, namespace |-> None, document_type |-> None,
        limit |-> MaxLimit, threshold |-> t, metadata_filters |-> NoMetadata,
        current_project_path |-> p, use_hybrid |-> h, expand_query |-> FALSE,
        rerank |-> FALSE ]
      : q \in LexicalQueries, t \in Thresholds, p \in {None, Some(P_PROJ)}, h \in BOOLEAN }

\* aurora_search was called without expansion and waits for the embedding
InitLexical ==
    /\ settings = AugmentSettings
    /\ store = Stored
    /\ cache = {}
    /\ UnitsIdle
    /\ req \in LexicalRequests
    /\ pc = "await_embed"
    /\ query = req.query
    /\ expanded_query = None
    /\ query_embedding = None
    /\ documents = <<>>
    /\ calls = <<ExtCall("embed", req.query)>>
    /\ llm = None
    /\ rerank_ret = None
    /\ result = None

NextLexical ==
    \/ \E qv \in QueryVectors : EmbedReturns(qv)
    \/ DbReturns

SpecLexical == InitLexical /\ [][NextLexical]_vars

\* the maximal runs of word characters of the text q, from left to right
WordRuns(q) ==
    LET isWord(i) == i \in 1..Len(q) /\ q[i] \in Alnum \cup {"_"}
        starts == {i \in 1..Len(q) : isWord(i) /\ ~ isWord(i - 1)}
        endOf(a) == CHOOSE j \in a..Len(q) :
                        /\ \A k \in a..j : isWord(k)
                        /\ ~ isWord(j + 1)
    IN  [k \in 1..Cardinality(starts) |->
            SubSeq(q, KthSmallest(starts, k), endOf(KthSmallest(starts, k)))]

\* the characters with a meaning in the syntax of a tsquery, the quote and
\* the parentheses included
OperatorChars == {"'", "(", ")", "|", "!", ":", "*", "<", "-", ">", "&"}

\* the " & " separators of the text s taken out
WithoutSeparators(s) ==
    Concat([k \in 1..Len(SplitOn(s, {"&"})) |-> Strip(SplitOn(s, {"&"})[k])])

\* the tsquery is the runs of word characters of the query joined by " & ":
\* what it holds besides the separators are letters, digits (of ASCII or
\* not) and underscores, never an operator character, a blank or a
\* character that cannot be encoded
C23_Sanitized ==
    Issued("db") =>
        /\ CallArg("db") = Join(WordRuns(query), <<" ", "&", " ">>)
        /\ \A i \in 1..Len(CallArg("db")) :
              CallArg("db")[i] \in Alnum \cup {"_", " ", "&"}
        /\ \A i \in 1..Len(WithoutSeparators(CallArg("db"))) :
              WithoutSeparators(CallArg("db"))[i] \notin
                  OperatorChars \cup SpaceChars \cup {SURROGATE}

\* with an empty tsquery the search is an embedding-only one: no keyword
\* score, admission by the threshold alone, the embedding score as score
C23_LexicalDisabled ==
    (pc = "done" /\ result.some /\ CallArg("db") = <<>>) =>
        LET eligible == {d \in PassingFilters : d.embedding_score > req.threshold}
        IN  /\ Ids(documents) \subseteq {d.id : d \in eligible}
            /\ Len(documents) = Min(req.limit, Cardinality(eligible))
            /\ \A i \in Indices(Res.documents) :
                  LET x == Res.documents[i]
                  IN  /\ x.keyword_score = None
                      /\ x.similarity_score =
                            IF x.is_same_project
                            THEN Min(SCORE_CAP, 10 * x.embedding_score + PROJECT_BOOST)
                            ELSE 10 * x.embedding_score

\* C23: build_tsquery returns the maximal runs of word characters of the
\* query joined by " & ", so the result holds word characters and " & "
\* only; when it is empty the lexical branch is off for the request: no
\* keyword score is reported and admission and scoring follow the
\* embedding-only rules
C23_TsqueryWordsOnly == C23_Sanitized /\ C23_LexicalDisabled

\* a hybrid search for a query of operator characters only returned a
\* document while a stored document sat at or below the threshold
C23_Witness ==
    /\ pc = "done" /\ result.some
    /\ req.use_hybrid
    /\ query = <<"'", ")", ":", "*">>
    /\ CallArg("db") = <<>>
    /\ Res.documents # <<>>
    /\ \E d \in CurrentRows : d.embedding_score <= req.threshold

----------------------------------------------------------------------------
(* The order of the external calls of aurora_search *)

CallNames == [i \in 1..Len(calls) |-> calls[i].call]

\* the stages in their order; the first and the last are optional
StageOrders ==
    { <<"llm_expand", "embed", "db", "llm_rerank">>, <<"llm_expand", "embed", "db">>,
      <<"embed", "db", "llm_rerank">>, <<"embed", "db">> }

IsPrefix(s, t) == Len(s) <= Len(t) /\ SubSeq(t, 1, Len(s)) = s

\* the place where the search waits for the call `name`
AwaitOf(name) ==
    CASE name = "llm_expand" -> "await_expand"
      [] name = "embed" -> "await_embed"
      [] name = "db" -> "await_db"
      [] name = "llm_rerank" -> "await_rerank"

\* the calls issued so far are a beginning of the stage order, the chat
\* call of the expansion is there only when expansion is enabled and the
\* query is neither blank nor unencodable, and a search that is suspended
\* waits for the call it issued last
C26_InOrder ==
    /\ \E order \in StageOrders : IsPrefix(CallNames, order)
    /\ Issued("llm_expand") =>
          /\ ExpansionEnabled(req, settings)
          /\ Strip(req.query) # <<>>
          /\ Encodable(req.query)
    /\ pc \in AwaitPoints => (calls # <<>> /\ pc = AwaitOf(calls[Len(calls)].call))

\* a call is issued only by the step in which the call before it returned
\* (or by the step that starts the search), one call at a time; once the
\* embedding call or the statement has failed no call is issued
C26_OneAfterAnother ==
    /\ (calls' # calls /\ pc' # "idle") =>
          /\ Len(calls') = Len(calls) + 1 \/ (pc = "idle" /\ Len(calls') <= 1)
          /\ IsPrefix(calls, calls') \/ pc = "idle"
          /\ calls # <<>> => pc = AwaitOf(calls[Len(calls)].call)
          /\ calls' # <<>> => pc' = AwaitOf(calls'[Len(calls')].call)
    /\ pc' = "failed" => (pc \in {"await_embed", "await_db", "failed"} /\ calls' = calls)
    /\ pc = "failed" => (pc' \in {"failed", "idle"} /\ result' = None
                         /\ (calls' = calls \/ pc' = "idle"))

\* C26: in every run of aurora_search with a non-empty query the external
\* calls happen one after another in the order expansion (if any),
\* embedding, statement, reranking (if any); no stage starts before the one
\* before it has returned, and after a failure of the embedding call or of
\* the statement no later stage runs
C26_StagesSequential == [] C26_InOrder /\ [][C26_OneAfterAnother]_vars

\* a search that went through all four stages and returned
C26_Witness ==
    /\ Returned
    /\ CallNames = <<"llm_expand", "embed", "db", "llm_rerank">>
    /\ expanded_query.some
    /\ rerank_ret.some

----------------------------------------------------------------------------
(* The project flag of the returned documents and the boost of the query *)

\* the score of the returned document x before the boost
FusedOf(x) ==
    IF x.keyword_score.some
    THEN EMBEDDING_WEIGHT * x.embedding_score + KEYWORD_WEIGHT * Val(x.keyword_score)
    ELSE 10 * x.embedding_score

\* C29: for every returned document is_same_project is true if and only if
\* a non-empty current project path was supplied and the project path of the
\* document is the same text, and the documents with the flag are exactly
\* the ones whose score got the boost of 0.15, also for paths with quotes
C29_FlagMatchesBoost ==
    Returned => \A i \in Indices(Res.documents) :
        LET x == Res.documents[i]
        IN  /\ x.is_same_project <=>
                  /\ req.current_project_path.some
                  /\ Val(req.current_project_path) # <<>>
                  /\ x.project_path.some
                  /\ Val(x.project_path) = Val(req.current_project_path)
            /\ x.is_same_project
                  => x.similarity_score = Min(SCORE_CAP, FusedOf(x) + PROJECT_BOOST)
            /\ ~ x.is_same_project => x.similarity_score = FusedOf(x)

\* the current project path holds a quote; one returned document has this
\* path, the flag and the boost, another has neither
C29_Witness ==
    /\ Returned
    /\ req.current_project_path = Some(P_QUOTE)
    /\ \E i, j \in Indices(Res.documents) :
          /\ Res.documents[i].project_path = Some(P_QUOTE)
          /\ Res.documents[i].is_same_project
          /\ Res.documents[i].similarity_score = FusedOf(Res.documents[i]) + PROJECT_BOOST
          /\ ~ Res.documents[j].is_same_project
          /\ Res.documents[j].similarity_score = FusedOf(Res.documents[j])

----------------------------------------------------------------------------
(* The cache of expand seen from its callers *)

\* one step of the expand call of task t, as the cache rule has it: a call
\* that finds the entry of its key returns the stored text without a chat
\* call; a call that does not find it asks the chat model; an accepted
\* expansion is stored under the key; a rejected or failed one leaves the
\* cache as it was
C27_CallFollowsCache(t) ==
    LET key == ExpanderKey(tasks'[t].arg, settings)
    IN  /\ (tasks[t].pc = "idle" /\ tasks'[t].pc \notin {"idle", "returned", "raised"})
              => tasks'[t].pc = IF CacheHas(cache, key) THEN "hit" ELSE "await_llm"
        /\ (tasks[t].pc = "hit" /\ tasks'[t].pc # "hit")
              => /\ tasks'[t].pc = "returned"
                 /\ ~ tasks'[t].out.some
                 /\ tasks'[t].ret.some
                 /\ CacheHas(cache', key) => Val(tasks'[t].ret) = CacheGet(cache', key)
        /\ (tasks[t].pc = "await_llm" /\ tasks'[t].pc = "returned")
              => IF tasks'[t].ret.some
                 THEN CacheHas(cache', key) /\ CacheGet(cache', key) = Val(tasks'[t].ret)
                 ELSE cache' = cache

\* C27: after an expand call has accepted and stored an expansion, every
\* later expand call with the same query, model and temperature made before
\* the entry expires returns the stored text and issues no chat call; a
\* rejected or failed expansion stores nothing, so that the next call for
\* the key asks the chat model again
C27_CachedExpansionReused == [][\A t \in TaskIds : C27_CallFollowsCache(t)]_vars

----------------------------------------------------------------------------
(* The two TTL caches with their clock *)

\* TTLCache(maxsize=1000, ttl=3600) of QueryExpander and
\* TTLCache(maxsize=500, ttl=3600) of Summarizer: the sizes and the TTL are
\* the source's.  The class itself belongs to the cachetools library, which
\* is not part of the source tree and of which no version is fixed there,
\* so what a cache does with these numbers is taken from the specification
\* (CacheEntry): "an entry is visible only until insertion_time + TTL;
\* capacity-bounded, eviction favors oldest/expired first".  Here a cache is
\* the sequence of its links <<key, value, expires>>, oldest use first.
EXPANDER_CACHE_MAXSIZE == 1000
SUMMARY_CACHE_MAXSIZE == 500
CACHE_TTL == 3600

CacheNames == {"expander", "summarizer"}
\* the two sizes the other way round
Maxsize_Swapped(which) == IF which = "expander" THEN SUMMARY_CACHE_MAXSIZE
                                                ELSE EXPANDER_CACHE_MAXSIZE

Maxsize(which) == IF which = "expander" THEN EXPANDER_CACHE_MAXSIZE
                                        ELSE SUMMARY_CACHE_MAXSIZE

\* "visible only until insertion_time + TTL": from that instant on the link
\* is expired (cachetools from version 5 on agrees, "not (time <
\* link.expires)"; version 4 still showed the entry at that one instant)
Expired(link, t) == ~ (t < link.expires)

KeysOf(c) == {c[i].key : i \in 1..Len(c)}
LinkOf(c, k) == c[CHOOSE i \in 1..Len(c) : c[i].key = k]
Without(c, k) == SelectSeq(c, LAMBDA e : e.key # k)

\* the expired links leave the cache
TtlExpire(c, t) == SelectSeq(c, LAMBDA e : ~ Expired(e, t))

\* "cache_key in self._cache": the link is there and not expired; the order
\* of the links stays
TtlContains(c, k, t) == k \in KeysOf(c) /\ ~ Expired(LinkOf(c, k), t)

\* "self._cache[cache_key]": the link becomes the most recently used one;
\* an expired or missing key raises KeyError (ret = None)
TtlGetItem(c, k, t) ==
    IF k \notin KeysOf(c)
    THEN [c |-> c, ret |-> None]
    ELSE [ c   |-> Without(c, k) \o <<LinkOf(c, k)>>,
           ret |-> IF Expired(LinkOf(c, k), t) THEN None ELSE Some(LinkOf(c, k)) ]

\* "self._cache[cache_key] = value": the expired links leave first
\* ("eviction favors oldest/expired first"); a key that is still there
\* keeps its place in the count; otherwise the oldest links leave until
\* there is room for one more ("capacity-bounded"); the written link is the
\* newest one and is visible for ttl seconds from now
TtlSetItem(c, k, v, t, maxsize) ==
    LET live   == TtlExpire(c, t)
        excess == IF k \in KeysOf(live) \/ Len(live) + 1 <= maxsize
                  THEN 0 ELSE Len(live) + 1 - maxsize
        kept   == SubSeq(live, excess + 1, Len(live))
    IN  Without(kept, k) \o <<[key |-> k, value |-> v, expires |-> t + CACHE_TTL]>>

\* how long after the first expiry the clock is followed
MaxLate == 1

\* the instants the clock is looked at: around the writes of the start and
\* around the expiry of their entries
ClockInstants == 0..2 \cup {CACHE_TTL + d : d \in -1..MaxLate}

\* the text the writes of a run store
CachedText == <<"d", "b">>

\* n writes of the keys 1..n at time 0
Filled(n) == [i \in 1..n |-> [key |-> i, value |-> CachedText, expires |-> CACHE_TTL]]

\* n writes at time 0, a write of the key n + 1 at time 1 and reads of the
\* keys 1..n at time 2: the link written last is the least recently used
FilledThenRead(n) ==
    <<[key |-> n + 1, value |-> CachedText, expires |-> 1 + CACHE_TTL]>> \o Filled(n)

\* the keys the calls of a run use: the key written first and a key that
\* is not in the cache at the start
CacheKeys(which) == {1, Maxsize(which) + 1}

\* a run starts with a full cache
CacheStarts(which) ==
    { [c |-> Filled(Maxsize(which)), at |-> 0],
      [c |-> FilledThenRead(Maxsize(which) - 1), at |-> 2] }

InitCache ==
    /\ settings = AugmentSettings
    /\ \E which \in CacheNames : \E s \in CacheStarts(which) :
          /\ cache = IF which = "expander" THEN s.c ELSE <<>>
          /\ summary_cache = IF which = "summarizer" THEN s.c ELSE <<>>
          /\ now = s.at
    /\ tasks = [t \in TaskIds |-> IdleTask]
    /\ fs = {}
    /\ file_path = None
    /\ walk = IdleWalk
    /\ SearchIdle

cacheFrame == <<settings, store, query, expanded_query, query_embedding, documents,
                calls, llm, rerank_ret, tasks, fs, file_path, walk>>

TheCache(which) == IF which = "expander" THEN cache ELSE summary_cache

\* the caches share nothing but the clock: a run follows the one that was
\* filled at the start (a cache that was written to is never empty again)
Followed == IF summary_cache = <<>> THEN "expander" ELSE "summarizer"

SetCache(which, c) ==
    /\ cache' = IF which = "expander" THEN c ELSE cache
    /\ summary_cache' = IF which = "summarizer" THEN c ELSE summary_cache

\* time passes; nothing else runs between the test and the read of a call
Tick ==
    /\ \E t \in ClockInstants : t > now /\ now' = t
    /\ UNCHANGED <<cache, summary_cache, pc, req, result>>
    /\ UNCHANGED cacheFrame

\* "if cache_key in self._cache:" of expand and of summarize
CacheTest(which, k) ==
    /\ pc = "idle"
    /\ IF TtlContains(TheCache(which), k, now)
       THEN /\ pc' = "hit"
            /\ req' = Some([cache |-> which, key |-> k])
            /\ result' = None
       ELSE /\ result' = None
            /\ UNCHANGED <<pc, req>>
    /\ UNCHANGED <<cache, summary_cache, now>>
    /\ UNCHANGED cacheFrame

\* "cached_result = self._cache[cache_key]" and the return of the value
CacheRead ==
    /\ pc = "hit"
    /\ LET which == Val(req).cache
           k     == Val(req).key
           got   == TtlGetItem(TheCache(which), k, now)
       IN  /\ SetCache(which, got.c)
           /\ result' = IF got.ret.some
                        THEN Some([ op |-> "hit", cache |-> which, key |-> k, at |-> now,
                                    value |-> Val(got.ret).value,
                                    expires |-> Val(got.ret).expires ])
                        ELSE Some([op |-> "raised", cache |-> which, key |-> k, at |-> now])
    /\ pc' = "idle"
    /\ req' = NoRequest
    /\ UNCHANGED now
    /\ UNCHANGED cacheFrame

\* "self._cache[cache_key] = expanded" and "... = summary"
CacheWrite(which, k) ==
    /\ pc = "idle"
    /\ SetCache(which, TtlSetItem(TheCache(which), k, CachedText, now, Maxsize(which)))
    /\ result' = None
    /\ UNCHANGED <<pc, req, now>>
    /\ UNCHANGED cacheFrame

NextCache ==
    \/ Tick
    \/ \E k \in CacheKeys(Followed) : CacheTest(Followed, k)
    \/ CacheRead
    \/ \E k \in CacheKeys(Followed) : CacheWrite(Followed, k)

SpecCache == InitCache /\ [][NextCache]_vars

LinksOf(c) == {c[i] : i \in 1..Len(c)}

\* a value a lookup returned comes from an entry that was not yet at its
\* insertion time plus the TTL
C28_OnlyLiveReturned ==
    (result.some /\ result.v.op = "hit") => result.v.at < result.v.expires

C28_WithinCapacity ==
    /\ Len(cache) <= EXPANDER_CACHE_MAXSIZE
    /\ Len(summary_cache) <= SUMMARY_CACHE_MAXSIZE

\* one step seen from a cache with the links c before and c2 after it: a
\* write puts its entry last with the expiry at now plus the TTL and leaves
\* the entries it keeps as they were; when it drops an entry that is not yet
\* expired, the cache was full and no expired entry is kept; no other step
\* adds, drops or changes an entry
C28_CacheStep(c, c2, maxsize) ==
    LET before == LinksOf(c)
        after  == LinksOf(c2)
        keys   == KeysOf(c2)
    IN  IF pc = "idle" /\ c2 # c
        THEN /\ c2[Len(c2)].expires = now + CACHE_TTL
             /\ after \ {c2[Len(c2)]} \subseteq before
             /\ (\E e \in before : now < e.expires /\ e.key \notin keys)
                   => /\ Len(c) = maxsize
                      /\ Len(c2) = maxsize
                      /\ \A e \in after : now < e.expires
        ELSE after = before

\* C28: after any writes, lookups and clock advances the expander cache
\* holds at most 1000 entries and the summarizer cache at most 500, no
\* lookup made at or after an entry's insertion time plus the TTL of 3600 s
\* returns the entry, and a write that needs room drops the expired entries
\* before any live one
C28_CapacityAndTtl ==
    /\ [] (C28_WithinCapacity /\ C28_OnlyLiveReturned)
    /\ [][ /\ C28_CacheStep(cache, cache', EXPANDER_CACHE_MAXSIZE)
           /\ C28_CacheStep(summary_cache, summary_cache', SUMMARY_CACHE_MAXSIZE) ]_vars

\* at the instant the entries written at the start expire, a write into
\* the full expander cache has dropped all of them and kept the one entry
\* that is still live, although that one was the least recently used
C28_Witness ==
    /\ now = CACHE_TTL
    /\ Len(cache) = 2
    /\ cache[1].key = EXPANDER_CACHE_MAXSIZE /\ cache[1].expires = CACHE_TTL + 1
    /\ cache[2].key = EXPANDER_CACHE_MAXSIZE + 1 /\ cache[2].expires = 2 * CACHE_TTL

====
